---- MODULE Spec2Model ----
(***************************************************************************)
(* Exercise-validation and scoring core of the English-learning app:       *)
(* seeded shuffle (mulberry32 + Fisher-Yates), seed derivation, tokenizer, *)
(* spacing joiner, token comparator, and the word-bank widget that uses    *)
(* them.                                                                   *)
(*                                                                         *)
(* Conventions.  A JavaScript string is a sequence of character codes      *)
(* (<<97, 98>> is "ab").  A JavaScript array is a sequence; arrays whose   *)
(* identity matters live in a heap (a sequence of arrays indexed by        *)
(* reference).  A 32-bit word is <<hi, lo>> with both halves in            *)
(* 0..65535; a JavaScript integer Number n is <<hi, lo>> with lo in        *)
(* 0..65535 and hi any integer, n = hi * 65536 + lo.                       *)
(***************************************************************************)
EXTENDS Integers, Sequences, FiniteSets, TLC

VARIABLES
    \* environment: Date.now(), as [sec, ms]
    now,
    \* shuffleWithRecheck, one call, step by step
    heap, array, seed, maxAttempts, result, attempts, pc, input,
    \* two independent evaluations of generateSeed then deterministicShuffle
    questionId, sessionId, tokens, firstRun, secondRun,
    \* parseIntoTokens then joinTokensWithSpacing on one sentence
    sentence, parsed, joined,
    \* compareTokenArrays on one pair of arrays
    userTokens, correctTokens, caseSensitive, comparison,
    \* MegaChallenge showing one scramble question q = megaData.scramble[0]
    question, SESSION_SEED, activeZone, answers, submitted,
    \* the WordBankFill it renders: its props (<<>> while not mounted), its
    \* state hooks, its useMemo cell, and every bank it has displayed
    props, usedIndices, selectedWords, history, memo, shownBanks,
    \* the argument of the last call of the onComplete prop (<<>> before it)
    completed,
    \* contentValidator: a legacy question, the question converted from it
    \* or supplied directly, and what validation says of it
    legacy, candidate, report,
    \* MegaChallenge with a whole payload: which of the two variants it is,
    \* its megaData (with listeningData), and the argument of the last call
    \* of onScoresUpdate; its state hooks are activeZone, answers, submitted
    variant, megaData, scores,
    \* one call of callWithFallback: its argument, the local variables of
    \* its loop, every call of fn so far, and the promise it returned
    startModelIndex, models, position, lastError, invoked, promise

shuffleVars == <<heap, array, seed, maxAttempts, result, attempts, pc, input>>
seedVars == <<questionId, sessionId, tokens, firstRun, secondRun>>
tokenVars == <<sentence, parsed, joined>>
compareVars == <<userTokens, correctTokens, caseSensitive, comparison>>
challengeVars == <<question, SESSION_SEED, activeZone, answers, submitted>>
widgetVars == <<props, usedIndices, selectedWords, history, memo, shownBanks, completed>>
validatorVars == <<legacy, candidate, report>>
scoreVars == <<variant, megaData, scores>>
serviceVars == <<startModelIndex, models, position, lastError, invoked, promise>>
vars == <<now, shuffleVars, seedVars, tokenVars, compareVars, challengeVars, widgetVars,
         validatorVars, scoreVars, serviceVars>>

----------------------------------------------------------------------------
(* 32-bit arithmetic on <<hi, lo>> halves *)

Half == 2 ^ 16
Byte == 2 ^ 8

\* the values of a 16-bit half and of a 32-bit word
Halves == 0..(Half - 1)
Words == Halves \X Halves

\* a ^ b and a | b on 16-bit halves, bit by bit from the low end
BitXor[a \in Halves, b \in Halves] ==
    IF a = 0 THEN b
    ELSE IF b = 0 THEN a
    ELSE (((a % 2) + (b % 2)) % 2) + 2 * BitXor[a \div 2, b \div 2]

BitOr[a \in Halves, b \in Halves] ==
    IF a = 0 THEN b
    ELSE IF b = 0 THEN a
    ELSE (IF (a % 2) = 1 \/ (b % 2) = 1 THEN 1 ELSE 0) + 2 * BitOr[a \div 2, b \div 2]

\* x | 0 and x >>> 0: the 32-bit pattern of the integer Number x
ToInt32(n) == <<n[1] % Half, n[2]>>

\* the integer Number k (any TLC integer) as <<hi, lo>>
Num(k) == <<k \div Half, k % Half>>

\* Number + small non-negative integer, exact (no wrap: a double holds it)
NumAdd(n, k) == <<n[1] + ((n[2] + k) \div Half), (n[2] + k) % Half>>

WAdd(a, b) == <<(a[1] + b[1] + ((a[2] + b[2]) \div Half)) % Half, (a[2] + b[2]) % Half>>

WSub(a, b) == <<(a[1] - b[1] + ((a[2] - b[2]) \div Half)) % Half, (a[2] - b[2]) % Half>>

WXor(a, b) == <<BitXor[a[1], b[1]], BitXor[a[2], b[2]]>>

WOr(a, b) == <<BitOr[a[1], b[1]], BitOr[a[2], b[2]]>>

\* a << k, 0 < k < 16
WShl(a, k) ==
    <<((a[1] * (2 ^ k)) + (a[2] \div (2 ^ (16 - k)))) % Half, (a[2] * (2 ^ k)) % Half>>

\* a >>> k, 0 < k < 16
WShr(a, k) ==
    <<a[1] \div (2 ^ k), (a[2] \div (2 ^ k)) + ((a[1] % (2 ^ k)) * (2 ^ (16 - k)))>>

\* product of two 16-bit halves as a 32-bit word
Mul16[x \in Halves, y \in Halves] ==
    LET m == (x \div Byte) * (y % Byte) + (x % Byte) * (y \div Byte)
        l == (x % Byte) * (y % Byte) + (m % Byte) * Byte
    IN  <<(x \div Byte) * (y \div Byte) + (m \div Byte) + (l \div Half), l % Half>>

\* Math.imul(a, b): the low 32 bits of the product
Imul[a \in Words, b \in Words] ==
    <<(Mul16[a[2], b[2]][1] + Mul16[a[1], b[2]][2] + Mul16[a[2], b[1]][2]) % Half,
      Mul16[a[2], b[2]][2]>>

----------------------------------------------------------------------------
(* createSeededRandom: one call of the returned generator.  seedState is   *)
(* the captured variable `seed`; the result is its new value and the       *)
(* 32-bit numerator u of the returned float u / 4294967296.                *)

Mulberry32Increment == <<27947, 31221>>   \* 0x6d2b79f5

\* let t = Math.imul(seed ^ (seed >>> 15), 1 | seed)
MixFirst[s \in Words] == Imul[WXor(s, WShr(s, 15)), WOr(<<0, 1>>, s)]

\* t = (t + Math.imul(t ^ (t >>> 7), 61 | t)) ^ t
MixSecond[t \in Words] ==
    WXor(WAdd(t, Imul[WXor(t, WShr(t, 7)), WOr(<<0, 61>>, t)]), t)

\* (t ^ (t >>> 14)) >>> 0
MixFinal[t \in Words] == WXor(t, WShr(t, 14))

\* seed |= 0; seed = (seed + 0x6d2b79f5) | 0
AdvanceSeed(seedState) == WAdd(ToInt32(seedState), Mulberry32Increment)

createSeededRandom(seedState) ==
    [seed  |-> AdvanceSeed(seedState),
     value |-> MixFinal[MixSecond[MixFirst[AdvanceSeed(seedState)]]]]

\* mutant: Math.floor(random() * (i + 2))
FloorScaledOneMore(u, n) == (u[1] * (n + 1) + ((u[2] * (n + 1)) \div Half)) \div Half

\* Math.floor((u / 4294967296) * n) for 0 < n < 2^15: exact in doubles
FloorScaled(u, n) == (u[1] * n + ((u[2] * n) \div Half)) \div Half

----------------------------------------------------------------------------
(* generateSeed *)

\* an optional string argument that was not passed
Undefined == <<-1>>

\* mutant: the session id is never used, the clock always is
FalsyAlways(s) == TRUE

\* s || fallback takes the fallback for undefined and for the empty string
Falsy(s) == s = Undefined \/ s = <<>>

RECURSIVE DecimalDigits(_)
DecimalDigits(n) ==
    IF n < 10 THEN <<48 + n>> ELSE Append(DecimalDigits(n \div 10), 48 + (n % 10))

\* String(Date.now()) for the clock reading t = [sec, ms]
DateNowString(t) ==
    DecimalDigits(t.sec)
        \o <<48 + (t.ms \div 100), 48 + ((t.ms \div 10) % 10), 48 + (t.ms % 10)>>

\* `${questionId}-${sessionId || Date.now()}`
SeedString(qid, sid, t) ==
    qid \o <<45>> \o (IF Falsy(sid) THEN DateNowString(t) ELSE sid)

\* hash = ((hash << 5) - hash) + char; hash |= 0
HashStep[hash \in Words, char \in Nat] ==
    ToInt32(NumAdd(WSub(WShl(hash, 5), hash), char))

\* the value of hash after the first n characters of str
RECURSIVE HashLoop(_, _)
HashLoop(str, n) ==
    IF n = 0 THEN <<0, 0>> ELSE HashStep[HashLoop(str, n - 1), str[n]]

\* mutant: the signed reading of the hash is returned as it is
MathAbsOmitted(w) == IF w[1] < Half \div 2 THEN w ELSE <<w[1] - Half, w[2]>>

\* Math.abs of the signed reading of a 32-bit word, as a Number
MathAbs(w) ==
    IF w[1] < Half \div 2 THEN w
    ELSE IF w[2] = 0 THEN <<Half - w[1], 0>>
    ELSE <<Half - 1 - w[1], Half - w[2]>>

generateSeed(qid, sid, t) ==
    MathAbs(HashLoop(SeedString(qid, sid, t), Len(SeedString(qid, sid, t))))

----------------------------------------------------------------------------
(* deterministicShuffle, on heap arrays: h is the heap, arr the reference  *)
(* of the argument; the result is the new heap and the returned reference. *)

\* mutant: const result = array (no copy)
SpreadCopyAliased(h, arr) == [heap |-> h, ref |-> arr]

\* const result = [...array]
SpreadCopy(h, arr) == [heap |-> Append(h, h[arr]), ref |-> Len(h) + 1]

\* mutant: result[i] = result[j] only
SwapElementsLossy(h, ref, i, j) ==
    [h EXCEPT ![ref] = [@ EXCEPT ![i + 1] = h[ref][j + 1]]]

\* arr[k] for a 0-based k: undefined outside the array
ElementAt(arr, k) == IF k + 1 \in DOMAIN arr THEN arr[k + 1] ELSE Undefined

\* [result[i], result[j]] = [result[j], result[i]], 0-based i and j: an
\* assignment to an index at or past the length makes the array longer
SwapElements(h, ref, i, j) ==
    [h EXCEPT ![ref] =
        [k \in 1..(IF j + 1 > Len(h[ref]) THEN j + 1 ELSE Len(h[ref])) |->
            IF k = j + 1 THEN ElementAt(h[ref], i)
            ELSE IF k = i + 1 THEN ElementAt(h[ref], j)
            ELSE ElementAt(h[ref], k - 1)]]

RECURSIVE FisherYates(_, _, _, _)
FisherYates(h, ref, seedState, i) ==
    IF i > 0
    THEN \* r is one call of random(); j = Math.floor(random() * (i + 1));
         \* the heap after the swap and the next generator state are
         \* computed once
         CHOOSE out \in
            {FisherYates(step.heap, ref, step.seed, i - 1) :
                step \in {[heap |-> SwapElements(h, ref, i, FloorScaled(r.value, i + 1)),
                           seed |-> r.seed] :
                              r \in {createSeededRandom(seedState)}}} : TRUE
    ELSE h

deterministicShuffle(h, arr, seedNum) ==
    LET c == SpreadCopy(h, arr)
    IN  [heap |-> FisherYates(c.heap, c.ref, seedNum, Len(c.heap[c.ref]) - 1),
         ref  |-> c.ref]

arraysEqual(a, b) ==
    IF Len(a) # Len(b) THEN FALSE ELSE \A i \in 1..Len(a) : a[i] = b[i]

----------------------------------------------------------------------------
(* joinTokensWithSpacing, normalizeForComparison, compareTokenArrays,      *)
(* parseIntoTokens                                                         *)

\* . , ? ! : ; ' " )
PUNCTUATION_NO_SPACE_BEFORE == {<<46>>, <<44>>, <<63>>, <<33>>, <<58>>, <<59>>, <<39>>, <<34>>, <<41>>}

\* ( " '
PUNCTUATION_NO_SPACE_AFTER == {<<40>>, <<34>>, <<39>>}

\* currentToken.startsWith("'")
StartsWithApostrophe(token) == Len(token) > 0 /\ token[1] = 39

\* mutant: the semicolon is missing from the no-space-before list
NoSpaceBeforeWithoutSemicolon(currentToken) ==
    currentToken \in (PUNCTUATION_NO_SPACE_BEFORE \ {<<59>>})
        \/ StartsWithApostrophe(currentToken)

NoSpaceBefore(currentToken) ==
    currentToken \in PUNCTUATION_NO_SPACE_BEFORE \/ StartsWithApostrophe(currentToken)

\* mutant: no token suppresses the space after it
NoSpaceAfterNever(prevToken) == FALSE

NoSpaceAfter(prevToken) == prevToken \in PUNCTUATION_NO_SPACE_AFTER

\* the value of result after the loop has handled tokens[1] .. tokens[n]
RECURSIVE JoinLoop(_, _)
JoinLoop(toks, n) ==
    IF n = 1 THEN toks[1]
    ELSE IF NoSpaceBefore(toks[n]) \/ NoSpaceAfter(toks[n - 1])
         THEN JoinLoop(toks, n - 1) \o toks[n]
         ELSE JoinLoop(toks, n - 1) \o <<32>> \o toks[n]

joinTokensWithSpacing(toks) ==
    IF Len(toks) = 0 THEN <<>> ELSE JoinLoop(toks, Len(toks))

\* mutant: the space character is not whitespace
WhitespaceCharsWithoutSpace ==
    {9, 10, 11, 12, 13, 160, 5760, 8232, 8233, 8239, 8287, 12288, 65279}
        \cup (8192..8202)

\* the characters the regular expression class \s matches
WhitespaceChars ==
    {9, 10, 11, 12, 13, 32, 160, 5760, 8232, 8233, 8239, 8287, 12288, 65279}
        \cup (8192..8202)

\* mutant: the colon is not split off
TokenPunctuationWithoutColon == {46, 44, 33, 63, 59}

\* the characters /[.,!?;:]/ matches
TokenPunctuation == {46, 44, 33, 63, 59, 58}

\* String.prototype.toLowerCase on the letters A-Z
ToLowerCase(str) ==
    [i \in 1..Len(str) |-> IF str[i] \in 65..90 THEN str[i] + 32 ELSE str[i]]

\* text.trim()
RECURSIVE TrimStart(_)
TrimStart(text) ==
    IF Len(text) > 0 /\ text[1] \in WhitespaceChars THEN TrimStart(Tail(text)) ELSE text

RECURSIVE TrimEnd(_)
TrimEnd(text) ==
    IF Len(text) > 0 /\ text[Len(text)] \in WhitespaceChars
    THEN TrimEnd(SubSeq(text, 1, Len(text) - 1))
    ELSE text

\* text.replace(/\s+/g, ' '): every maximal run of whitespace becomes one space
RECURSIVE CollapseWhitespace(_)
CollapseWhitespace(text) ==
    IF Len(text) = 0 THEN <<>>
    ELSE IF text[1] \in WhitespaceChars
         THEN <<32>> \o CollapseWhitespace(TrimStart(text))
         ELSE <<text[1]>> \o CollapseWhitespace(Tail(text))

normalizeForComparison(text, isCaseSensitive) ==
    IF isCaseSensitive
    THEN CollapseWhitespace(TrimEnd(TrimStart(text)))
    ELSE ToLowerCase(CollapseWhitespace(TrimEnd(TrimStart(text))))

\* tokens[i] || '' for a 0-based index i
TokenOrEmpty(toks, i) == IF i + 1 <= Len(toks) THEN toks[i + 1] ELSE <<>>

\* mutant: only the user's token is lower-cased
TokensDifferOneSided(userToken, correctToken, isCaseSensitive) ==
    (IF isCaseSensitive THEN userToken ELSE ToLowerCase(userToken)) # correctToken

\* userNorm !== correctNorm
TokensDiffer(userToken, correctToken, isCaseSensitive) ==
    (IF isCaseSensitive THEN userToken ELSE ToLowerCase(userToken))
        # (IF isCaseSensitive THEN correctToken ELSE ToLowerCase(correctToken))

\* mutant: the loop stops at the shorter array
CompareLengthShorter(user, correct) ==
    IF Len(user) < Len(correct) THEN Len(user) ELSE Len(correct)

\* Math.max(userTokens.length, correctTokens.length)
CompareLength(user, correct) ==
    IF Len(user) > Len(correct) THEN Len(user) ELSE Len(correct)

\* differences after the loop has handled the indices 0 .. n-1
RECURSIVE DifferencesUpTo(_, _, _, _)
DifferencesUpTo(user, correct, isCaseSensitive, n) ==
    IF n = 0 THEN <<>>
    ELSE IF TokensDiffer(TokenOrEmpty(user, n - 1), TokenOrEmpty(correct, n - 1),
                         isCaseSensitive)
         THEN Append(DifferencesUpTo(user, correct, isCaseSensitive, n - 1), n - 1)
         ELSE DifferencesUpTo(user, correct, isCaseSensitive, n - 1)

compareTokenArrays(user, correct, isCaseSensitive) ==
    LET differences ==
            DifferencesUpTo(user, correct, isCaseSensitive, CompareLength(user, correct))
    IN  [isCorrect   |-> Len(differences) = 0 /\ Len(user) = Len(correct),
         differences |-> differences]

\* one turn of the loop of parseIntoTokens on the loop state [tokens, current]
ParseStep(before, char) ==
    IF char \in WhitespaceChars
    THEN [tokens |-> IF Len(before.current) > 0
                     THEN Append(before.tokens, before.current)
                     ELSE before.tokens,
          current |-> <<>>]
    ELSE IF char \in TokenPunctuation
         THEN [tokens |-> Append(IF Len(before.current) > 0
                                 THEN Append(before.tokens, before.current)
                                 ELSE before.tokens,
                                 <<char>>),
               current |-> <<>>]
         ELSE [tokens |-> before.tokens, current |-> Append(before.current, char)]

\* parseIntoTokens: the loop state [tokens, current] after the first n
\* characters (the state before the last turn is computed once)
RECURSIVE ParseLoop(_, _)
ParseLoop(str, n) ==
    IF n = 0 THEN [tokens |-> <<>>, current |-> <<>>]
    ELSE CHOOSE after \in {ParseStep(before, str[n]) : before \in {ParseLoop(str, n - 1)}} :
             TRUE

parseIntoTokens(str) ==
    LET final == ParseLoop(str, Len(str))
    IN  IF Len(final.current) > 0 THEN Append(final.tokens, final.current)
        ELSE final.tokens

----------------------------------------------------------------------------
(* Bounds and input domains *)

MaxTokens == 3
MaxAttemptsBound == 2
MaxClockTicks == 2
MaxSentenceLen == 4
MaxUserTokens == 2
MaxCorrectTokens == 3
DefaultMaxAttempts == 10

\* "a", "b", "."
ShuffleTokens == {<<97>>, <<98>>, <<46>>}

TokenArrays(S, n) == UNION {[1..k -> S] : k \in 0..n}

\* "q1", "q2", "", and ids whose seed string has a negative hash: "zzz"
\* with "s1", "Q" with the clock, "6976FDK" with "s1" (the hash is -2^31)
QuestionIds ==
    {<<113, 49>>, <<113, 50>>, <<>>, <<122, 122, 122>>, <<81>>,
     <<54, 57, 55, 54, 70, 68, 75>>}

\* not passed, "", "s1"
SessionIds == {Undefined, <<>>, <<115, 49>>}

ClockStart == [sec |-> 1700000000, ms |-> 0]

\* 0, 1, -1, 2^31 - 1, 2^31 (Math.abs of the minimum hash), and a derived seed
SeedInputs ==
    {Num(0), Num(1), Num(-1), Num(2147483647), <<Half \div 2, 0>>,
     generateSeed(<<113, 49>>, <<115, 49>>, ClockStart)}

IdleShuffle ==
    /\ heap = <<>>
    /\ array = 0
    /\ seed = <<0, 0>>
    /\ maxAttempts = 0
    /\ result = 0
    /\ attempts = 0
    /\ pc = "idle"
    /\ input = <<>>

IdleSeed ==
    /\ questionId = <<>>
    /\ sessionId = <<>>
    /\ tokens = <<>>
    /\ firstRun = <<>>
    /\ secondRun = <<>>

IdleTokens ==
    /\ sentence = <<>>
    /\ parsed = <<>>
    /\ joined = <<>>

IdleCompare ==
    /\ userTokens = <<>>
    /\ correctTokens = <<>>
    /\ caseSensitive = FALSE
    /\ comparison = <<>>

IdleChallenge ==
    /\ question = <<>>
    /\ SESSION_SEED = <<>>
    /\ activeZone = "none"
    /\ answers = <<>>
    /\ submitted = <<>>

IdleWidget ==
    /\ props = <<>>
    /\ usedIndices = {}
    /\ selectedWords = <<>>
    /\ history = <<>>
    /\ memo = <<>>
    /\ shownBanks = {}
    /\ completed = <<>>

IdleValidator ==
    /\ legacy = <<>>
    /\ candidate = <<>>
    /\ report = <<>>

IdleScores ==
    /\ variant = "none"
    /\ megaData = <<>>
    /\ scores = <<>>

IdleService ==
    /\ startModelIndex = 0
    /\ models = <<>>
    /\ position = 0
    /\ lastError = <<>>
    /\ invoked = <<>>
    /\ promise = <<>>

\* "a", "1", " ", and the six punctuation marks the tokenizer splits on
SentenceChars == {97, 49, 32, 46, 44, 33, 63, 59, 58}

\* "A tiger is stronger than a lion."
TigerSentence ==
    <<65, 32, 116, 105, 103, 101, 114, 32, 105, 115, 32,
      115, 116, 114, 111, 110, 103, 101, 114, 32, 116, 104, 97, 110, 32,
      97, 32, 108, 105, 111, 110, 46>>

\* "A", "a", "B", "C", ""
CompareTokens == {<<65>>, <<97>>, <<66>>, <<67>>, <<>>}

----------------------------------------------------------------------------
(* shuffleWithRecheck(array, seed, maxAttempts), one statement per step.   *)
(* After each call of deterministicShuffle the arrays no variable refers   *)
(* to any more are dropped from the heap.                                  *)

\* the heap with only the argument array and the array `out` returns
Collect(out, arr) ==
    IF out.ref = arr
    THEN [heap |-> <<out.heap[arr]>>, ref |-> 1]
    ELSE [heap |-> <<out.heap[arr], out.heap[out.ref]>>, ref |-> 2]

\* mutant: every retry reuses the first seed
RecheckSeedStuck(seedNum, k) == seedNum

\* seed + attempts
RecheckSeed(seedNum, k) == NumAdd(seedNum, k)

\* arraysEqual(result, array) && attempts < maxAttempts
RecheckCondition(h, res, arr, att, maxAtt) ==
    arraysEqual(h[res], h[arr]) /\ att < maxAtt

\* mutant: the attempt counter is never advanced
NextAttemptStuck(att) == att

\* attempts++
NextAttempt(att) == att + 1

InitShuffle ==
    /\ now = ClockStart
    /\ IdleSeed /\ IdleTokens /\ IdleCompare /\ IdleChallenge /\ IdleWidget /\ IdleValidator /\ IdleScores /\ IdleService
    /\ input \in TokenArrays(ShuffleTokens, MaxTokens)
    /\ heap = <<input>>
    /\ array = 1
    /\ seed \in SeedInputs
    /\ maxAttempts \in (1..MaxAttemptsBound) \cup {DefaultMaxAttempts}
    /\ result = 0
    /\ attempts = 0
    /\ pc = "call"

\* let result = deterministicShuffle(array, seed); let attempts = 1;
FirstShuffle ==
    /\ pc = "call"
    /\ LET out == Collect(deterministicShuffle(heap, array, seed), array)
       IN  /\ heap' = out.heap
           /\ result' = out.ref
    /\ attempts' = 1
    /\ pc' = "while"
    /\ UNCHANGED <<array, seed, maxAttempts, input, now, seedVars, tokenVars, compareVars, challengeVars, widgetVars, validatorVars, scoreVars, serviceVars>>

\* the body of the while loop
Reshuffle ==
    /\ pc = "while"
    /\ RecheckCondition(heap, result, array, attempts, maxAttempts)
    /\ LET out == Collect(deterministicShuffle(heap, array, RecheckSeed(seed, attempts)), array)
       IN  /\ heap' = out.heap
           /\ result' = out.ref
    /\ attempts' = NextAttempt(attempts)
    /\ UNCHANGED <<pc, array, seed, maxAttempts, input, now, seedVars, tokenVars, compareVars, challengeVars, widgetVars, validatorVars, scoreVars, serviceVars>>

\* return result;
ReturnResult ==
    /\ pc = "while"
    /\ ~RecheckCondition(heap, result, array, attempts, maxAttempts)
    /\ pc' = "done"
    /\ UNCHANGED <<heap, result, attempts, array, seed, maxAttempts, input, now, seedVars, tokenVars, compareVars, challengeVars, widgetVars, validatorVars, scoreVars, serviceVars>>

NextShuffle == FirstShuffle \/ Reshuffle \/ ReturnResult

\* the call runs to completion: nothing else is scheduled in between
SpecShuffle == InitShuffle /\ [][NextShuffle]_vars /\ WF_vars(NextShuffle)

----------------------------------------------------------------------------
(* Two evaluations of generateSeed(questionId, sessionId) followed by      *)
(* deterministicShuffle(tokens, seed), at whatever times the clock shows   *)
(* (a repeated call, or a call after a restart of the process).            *)

\* deterministicShuffle(arr, s) as a value
ShuffledWith(arr, s) ==
    LET out == deterministicShuffle(<<arr>>, 1, s) IN out.heap[out.ref]

\* const seed = generateSeed(questionId, sessionId); deterministicShuffle(tokens, seed)
SeedThenShuffle(qid, sid, toks, t) ==
    [seed |-> generateSeed(qid, sid, t), tokens |-> ShuffledWith(toks, generateSeed(qid, sid, t))]

InitSeed ==
    /\ now = ClockStart
    /\ IdleShuffle /\ IdleTokens /\ IdleCompare /\ IdleChallenge /\ IdleWidget /\ IdleValidator /\ IdleScores /\ IdleService
    /\ questionId \in QuestionIds
    /\ sessionId \in SessionIds
    /\ tokens \in TokenArrays(ShuffleTokens, MaxTokens)
    /\ firstRun = <<>>
    /\ secondRun = <<>>

\* time passes
Tick ==
    /\ now.ms < ClockStart.ms + MaxClockTicks
    /\ now' = [now EXCEPT !.ms = @ + 1]
    /\ UNCHANGED <<shuffleVars, seedVars, tokenVars, compareVars, challengeVars, widgetVars, validatorVars, scoreVars, serviceVars>>

FirstEvaluation ==
    /\ firstRun = <<>>
    /\ firstRun' = <<SeedThenShuffle(questionId, sessionId, tokens, now)>>
    /\ UNCHANGED <<now, questionId, sessionId, tokens, secondRun, shuffleVars, tokenVars, compareVars, challengeVars, widgetVars, validatorVars, scoreVars, serviceVars>>

SecondEvaluation ==
    /\ firstRun # <<>>
    /\ secondRun = <<>>
    /\ secondRun' = <<SeedThenShuffle(questionId, sessionId, tokens, now)>>
    /\ UNCHANGED <<now, questionId, sessionId, tokens, firstRun, shuffleVars, tokenVars, compareVars, challengeVars, widgetVars, validatorVars, scoreVars, serviceVars>>

NextSeed == Tick \/ FirstEvaluation \/ SecondEvaluation

SpecSeed == InitSeed /\ [][NextSeed]_vars

----------------------------------------------------------------------------
(* parseIntoTokens(sentence), then joinTokensWithSpacing of its result *)

Strings(S, n) == UNION {[1..k -> S] : k \in 0..n}

InitTokens ==
    /\ now = ClockStart
    /\ IdleShuffle /\ IdleSeed /\ IdleCompare /\ IdleChallenge /\ IdleWidget /\ IdleValidator /\ IdleScores /\ IdleService
    /\ sentence \in Strings(SentenceChars, MaxSentenceLen) \cup {TigerSentence}
    /\ parsed = <<>>
    /\ joined = <<>>

\* parsed and joined hold the returned value in a one-element sequence
Tokenize ==
    /\ parsed = <<>>
    /\ parsed' = <<parseIntoTokens(sentence)>>
    /\ UNCHANGED <<now, sentence, joined, shuffleVars, seedVars, compareVars, challengeVars, widgetVars, validatorVars, scoreVars, serviceVars>>

Join ==
    /\ parsed # <<>>
    /\ joined = <<>>
    /\ joined' = <<joinTokensWithSpacing(parsed[1])>>
    /\ UNCHANGED <<now, sentence, parsed, shuffleVars, seedVars, compareVars, challengeVars, widgetVars, validatorVars, scoreVars, serviceVars>>

NextTokens == Tokenize \/ Join

SpecTokens == InitTokens /\ [][NextTokens]_vars

----------------------------------------------------------------------------
(* joinTokensWithSpacing on a token array of any content, as WordBankFill  *)
(* calls it on the tokens of its props and of the selection                *)

MaxJoinTokens == 3

\* the nine tokens of PUNCTUATION_NO_SPACE_BEFORE, "(", "a", "'s" and ""
JoinTokens ==
    {<<46>>, <<44>>, <<63>>, <<33>>, <<58>>, <<59>>, <<39>>, <<34>>, <<41>>,
     <<40>>, <<97>>, <<39, 115>>, <<>>}

InitJoin ==
    /\ now = ClockStart
    /\ IdleShuffle /\ IdleSeed /\ IdleCompare /\ IdleChallenge /\ IdleWidget /\ IdleValidator /\ IdleScores /\ IdleService
    /\ sentence = <<>>
    /\ parsed \in {<<toks>> : toks \in TokenArrays(JoinTokens, MaxJoinTokens)}
    /\ joined = <<>>

NextJoin == Join

SpecJoin == InitJoin /\ [][NextJoin]_vars

----------------------------------------------------------------------------
(* compareTokenArrays(userTokens, correctTokens, caseSensitive) *)

InitCompare ==
    /\ now = ClockStart
    /\ IdleShuffle /\ IdleSeed /\ IdleTokens /\ IdleChallenge /\ IdleWidget /\ IdleValidator /\ IdleScores /\ IdleService
    /\ userTokens \in TokenArrays(CompareTokens, MaxUserTokens)
    /\ correctTokens \in TokenArrays(CompareTokens, MaxCorrectTokens)
    /\ caseSensitive \in BOOLEAN
    /\ comparison = <<>>

Compare ==
    /\ comparison = <<>>
    /\ comparison' = <<compareTokenArrays(userTokens, correctTokens, caseSensitive)>>
    /\ UNCHANGED <<now, userTokens, correctTokens, caseSensitive, shuffleVars, seedVars, tokenVars, challengeVars, widgetVars, validatorVars, scoreVars, serviceVars>>

NextCompare == Compare

SpecCompare == InitCompare /\ [][NextCompare]_vars

----------------------------------------------------------------------------
(* MegaChallenge with one scramble question, and the WordBankFill it       *)
(* renders for it while the scramble zone is the active one.               *)

MaxBankLen == 3
MaxHistory == 3

\* "a b", "a b.", "b"
ScrambleSentences == {<<97, 32, 98>>, <<97, 32, 98, 46>>, <<98>>}

\* q.scrambled is optional: <<>> when the field is missing, else <<array>>
ScrambledArrays == {<<>>} \cup {<<a>> : a \in TokenArrays(ShuffleTokens, MaxBankLen)}

ChallengeZones == {"mc", "fill", "scramble", "vocab", "tf", "listen"}

RECURSIVE RecheckLoop(_, _, _, _, _, _)
\* the while loop of shuffleWithRecheck, run to its end
RecheckLoop(h, res, arr, seedNum, att, maxAtt) ==
    IF RecheckCondition(h, res, arr, att, maxAtt)
    THEN CHOOSE final \in
            {RecheckLoop(out.heap, out.ref, arr, seedNum, NextAttempt(att), maxAtt) :
                out \in {Collect(shuffled, arr) :
                            shuffled \in {deterministicShuffle(h, arr,
                                              RecheckSeed(seedNum, att))}}} : TRUE
    ELSE h[res]

\* shuffleWithRecheck(array, seed, maxAttempts) as a value (each shuffle is
\* computed once)
shuffleWithRecheck(arr, seedNum, maxAtt) ==
    CHOOSE final \in
        {RecheckLoop(out.heap, out.ref, 1, seedNum, 1, maxAtt) :
            out \in {Collect(shuffled, 1) :
                        shuffled \in {deterministicShuffle(<<arr>>, 1, seedNum)}}} : TRUE

\* record[key] of a Record<string, _>, undefined when the key is absent
Lookup(record, key) == IF key \in DOMAIN record THEN <<record[key]>> ELSE <<>>

\* {...prev, [key]: val}
Put(record, key, val) ==
    [k \in DOMAIN record \cup {key} |-> IF k = key THEN val ELSE record[k]]

\* an array created during a render is a new object; all that is observable
\* of its identity is that it differs from the one the previous render made
NewArrayRef(prevRef) == IF prevRef = 1 THEN 2 ELSE 1

\* the array q.scrambled refers to is the same object at every render
ScrambledRef == 0

\* let wordBank = q.scrambled || []; replaced by [...correctTokens] when
\* its length is not the number of correct tokens
RenderWordBank(q, prevRef) ==
    LET expected == parseIntoTokens(q.correctSentence)
        provided == IF q.scrambled = <<>>
                    THEN [ref |-> NewArrayRef(prevRef), val |-> <<>>]
                    ELSE [ref |-> ScrambledRef, val |-> q.scrambled[1]]
    IN  IF Len(provided.val) # Len(expected)
        THEN [ref |-> NewArrayRef(prevRef), val |-> expected]
        ELSE provided

\* the props of <WordBankFill .../> in the scramble zone
ScrambleProps(q, subm, seedStr, prevRef) ==
    [questionId    |-> q.id,
     wordBank      |-> RenderWordBank(q, prevRef),
     correctTokens |-> parseIntoTokens(q.correctSentence),
     mode          |-> "arrange_words",
     blankCount    |-> <<>>,
     disabled      |-> Lookup(subm, q.id) = <<TRUE>>,
     showResult    |-> Lookup(subm, q.id) = <<TRUE>>,
     sessionSeed   |-> seedStr]

\* useMemo(() => shuffleWithRecheck(wordBank, generateSeed(questionId,
\* sessionSeed)), [wordBank, questionId, sessionSeed]): the array dependency
\* is compared by reference, the strings by value
UseMemoShuffledBank(cell, p, t) ==
    LET deps == <<p.wordBank.ref, p.questionId, p.sessionSeed>>
    IN  IF cell # <<>> /\ cell[1].deps = deps
        THEN cell
        ELSE CHOOSE fresh \in
                {<<[deps  |-> deps,
                    value |-> shuffleWithRecheck(p.wordBank.val, seedNum, DefaultMaxAttempts)]>> :
                    seedNum \in {generateSeed(p.questionId, p.sessionSeed, t)}} : TRUE

shuffledBank == memo[1].value

\* blankCount used as a condition
Truthy(count) == count # <<>> /\ count[1] # 0

\* mutant: the selected words are read in reverse order
SelectedTokensReversed(selected) ==
    [i \in 1..Len(selected) |-> selected[Len(selected) + 1 - i].word]

\* selectedWords.map(s => s.word)
SelectedTokens(selected) == [i \in 1..Len(selected) |-> selected[i].word]

\* mutant: the selection always counts as complete
IsCompleteAlways(p, selected, bank) == TRUE

\* const isComplete = ...
IsComplete(p, selected, bank) ==
    IF p.mode = "arrange_words"
    THEN Len(selected) = Len(bank)
    ELSE Len(selected) = (IF Truthy(p.blankCount) THEN p.blankCount[1] ELSE Len(p.correctTokens))

\* the argument handleSubmit passes to onComplete
SubmitResult(p, selected) ==
    [isCorrect     |-> compareTokenArrays(SelectedTokens(selected), p.correctTokens, FALSE).isCorrect,
     userTokens    |-> SelectedTokens(selected),
     userAnswer    |-> joinTokensWithSpacing(SelectedTokens(selected)),
     correctAnswer |-> joinTokensWithSpacing(p.correctTokens)]

\* mutant: the last selected word is removed, whichever was tapped
RemoveAtEnd(selected, index) == SubSeq(selected, 1, Len(selected) - 1)

\* prev.filter((_, i) => i !== index), index counted from 0
RemoveAt(selected, index) ==
    [i \in 1..(Len(selected) - 1) |-> IF i <= index THEN selected[i] ELSE selected[i + 1]]

InitChallenge ==
    /\ now = ClockStart
    /\ IdleShuffle /\ IdleSeed /\ IdleTokens /\ IdleCompare /\ IdleValidator /\ IdleScores /\ IdleService
    /\ question \in [id : {<<113, 49>>}, correctSentence : ScrambleSentences,
                     scrambled : ScrambledArrays]
    \* const SESSION_SEED = Date.now().toString(), when the module is loaded
    /\ SESSION_SEED = DateNowString(now)
    /\ activeZone = "mc"
    /\ answers = <<>>
    /\ submitted = <<>>
    /\ IdleWidget

\* MegaChallenge renders with the given zone and submitted map: WordBankFill
\* is rendered (and its useMemo evaluated) exactly in the scramble zone, and
\* is unmounted, its memo cell discarded, in every other zone
RenderChallenge(zone, subm) ==
    LET prevRef == IF props = <<>> THEN ScrambledRef ELSE props[1].wordBank.ref
    IN  IF zone = "scramble"
        THEN \E p \in {ScrambleProps(question, subm, SESSION_SEED, prevRef)} :
             \E cell \in {UseMemoShuffledBank(memo, p, now)} :
                /\ props' = <<p>>
                /\ memo' = cell
                /\ shownBanks' = shownBanks \cup {cell[1].value}
        ELSE /\ props' = <<>>
             /\ memo' = <<>>
             /\ UNCHANGED shownBanks

\* WordBankFill renders again after one of its own state updates
RenderWidget ==
    \E cell \in {UseMemoShuffledBank(memo, props[1], now)} :
        /\ memo' = cell
        /\ shownBanks' = shownBanks \cup {cell[1].value}
        /\ UNCHANGED <<props, completed>>

\* onClick={() => setActiveZone(z.id)}: setting the zone already active
\* causes no render; a WordBankFill mounted anew starts from the initial
\* values of its state hooks
SetActiveZone(zone) ==
    /\ IF zone = activeZone
       THEN UNCHANGED <<activeZone, widgetVars, validatorVars, scoreVars, serviceVars>>
       ELSE /\ activeZone' = zone
            /\ RenderChallenge(zone, submitted)
            /\ usedIndices' = {}
            /\ selectedWords' = <<>>
            /\ history' = <<>>
            /\ UNCHANGED completed
    /\ UNCHANGED <<now, question, SESSION_SEED, answers, submitted,
                   shuffleVars, seedVars, tokenVars, compareVars, validatorVars, scoreVars, serviceVars>>

\* the parent of MegaChallenge renders again
ParentRender ==
    /\ RenderChallenge(activeZone, submitted)
    /\ UNCHANGED <<now, challengeVars, usedIndices, selectedWords, history, completed,
                   shuffleVars, seedVars, tokenVars, compareVars, validatorVars, scoreVars, serviceVars>>

\* handleBankWordTap(shuffledBank[index], index), index counted from 0
BankWordTap(index) ==
    /\ props # <<>>
    /\ index \in 0..(Len(shuffledBank) - 1)
    /\ IF props[1].disabled \/ props[1].showResult \/ index \in usedIndices
       THEN UNCHANGED widgetVars
       ELSE IF /\ props[1].mode = "fill_blanks"
               /\ Truthy(props[1].blankCount)
               /\ Len(selectedWords) >= props[1].blankCount[1]
       THEN UNCHANGED widgetVars
       ELSE /\ history' = Append(history, selectedWords)
            /\ selectedWords' = Append(selectedWords,
                   [word |-> shuffledBank[index + 1], originalIndex |-> index])
            /\ usedIndices' = usedIndices \cup {index}
            /\ RenderWidget
    /\ UNCHANGED <<now, challengeVars, shuffleVars, seedVars, tokenVars, compareVars, validatorVars, scoreVars, serviceVars>>

\* handleAnswerWordTap(index), index counted from 0
AnswerWordTap(index) ==
    /\ props # <<>>
    /\ index \in 0..(Len(shuffledBank) - 1)
    /\ IF props[1].disabled \/ props[1].showResult
       THEN UNCHANGED widgetVars
       ELSE IF index >= Len(selectedWords)
       THEN UNCHANGED widgetVars
       ELSE /\ history' = Append(history, selectedWords)
            /\ selectedWords' = RemoveAt(selectedWords, index)
            /\ usedIndices' = usedIndices \ {selectedWords[index + 1].originalIndex}
            /\ RenderWidget
    /\ UNCHANGED <<now, challengeVars, shuffleVars, seedVars, tokenVars, compareVars, validatorVars, scoreVars, serviceVars>>

\* mutant: undo goes back to the oldest entry of the history
PreviousStateOldest(hist) == hist[1]

\* const previousState = history[history.length - 1]
PreviousState(hist) == hist[Len(hist)]

\* handleUndo()
Undo ==
    /\ props # <<>>
    /\ IF props[1].disabled \/ props[1].showResult \/ Len(history) = 0
       THEN UNCHANGED widgetVars
       ELSE LET previousState == PreviousState(history)
            IN  /\ history' = SubSeq(history, 1, Len(history) - 1)
                /\ selectedWords' = previousState
                /\ usedIndices' = {previousState[i].originalIndex : i \in 1..Len(previousState)}
                /\ RenderWidget
    /\ UNCHANGED <<now, challengeVars, shuffleVars, seedVars, tokenVars, compareVars, validatorVars, scoreVars, serviceVars>>

\* handleReset()
Reset ==
    /\ props # <<>>
    /\ IF props[1].disabled \/ props[1].showResult
       THEN UNCHANGED widgetVars
       ELSE /\ history' = <<>>
            /\ selectedWords' = <<>>
            /\ usedIndices' = {}
            /\ RenderWidget
    /\ UNCHANGED <<now, challengeVars, shuffleVars, seedVars, tokenVars, compareVars, validatorVars, scoreVars, serviceVars>>

\* handleSubmit(), with onComplete = (res) => { handleAnswer(q.id, res);
\* checkFinal(q.id, res.isCorrect); } and the render of MegaChallenge the
\* two state updates cause
Submit ==
    /\ props # <<>>
    /\ IF ~IsComplete(props[1], selectedWords, shuffledBank) \/ props[1].disabled
       THEN UNCHANGED <<challengeVars, widgetVars, scoreVars, serviceVars>>
       ELSE /\ answers' = IF Lookup(submitted, props[1].questionId) = <<TRUE>>
                          THEN answers
                          ELSE Put(answers, props[1].questionId,
                                   SubmitResult(props[1], selectedWords))
            /\ submitted' = Put(submitted, props[1].questionId, TRUE)
            /\ completed' = <<SubmitResult(props[1], selectedWords)>>
            /\ RenderChallenge(activeZone, submitted')
            /\ UNCHANGED <<question, SESSION_SEED, activeZone,
                           usedIndices, selectedWords, history>>
    /\ UNCHANGED <<now, shuffleVars, seedVars, tokenVars, compareVars, validatorVars, scoreVars, serviceVars>>

NextChallenge ==
    \/ Tick
    \/ \E zone \in ChallengeZones : SetActiveZone(zone)
    \/ ParentRender
    \/ \E index \in 0..MaxBankLen : Len(history) < MaxHistory /\ BankWordTap(index)
    \/ \E index \in 0..MaxBankLen : Len(history) < MaxHistory /\ AnswerWordTap(index)
    \/ Undo
    \/ Reset
    \/ Submit

SpecChallenge == InitChallenge /\ [][NextChallenge]_vars

----------------------------------------------------------------------------
(* WordBankFill on its own: mounted with props of either mode that stay    *)
(* the same, and an onComplete prop that only receives the result.         *)

MaxWidgetBank == 2
MaxWidgetHistory == 3
MaxBlankCount == 1

\* "a", "b"
WidgetTokens == {<<97>>, <<98>>}

ReverseTokens(toks) == [i \in 1..Len(toks) |-> toks[Len(toks) + 1 - i]]

\* the correct tokens tried with a bank: the bank in its own and in reverse
\* order and, when that leaves a token, the bank without its last token
\* (which is then a distractor)
WidgetCorrectTokens(bank) ==
    {bank, ReverseTokens(bank)}
        \cup (IF Len(bank) > 1 THEN {SubSeq(bank, 1, Len(bank) - 1)} ELSE {})

\* the props of WordBankFill; blankCount is <<>> when not passed
WidgetProps ==
    UNION {[questionId    : {<<113, 49>>},
            wordBank      : {[ref |-> ScrambledRef, val |-> bank]},
            correctTokens : WidgetCorrectTokens(bank),
            mode          : {"fill_blanks", "arrange_words"},
            blankCount    : {<<>>} \cup {<<n>> : n \in 0..MaxBlankCount},
            disabled      : BOOLEAN,
            showResult    : BOOLEAN,
            sessionSeed   : {<<115, 49>>}]
           : bank \in TokenArrays(WidgetTokens, MaxWidgetBank)}

\* the state after the first render
InitWidget ==
    /\ now = ClockStart
    /\ IdleShuffle /\ IdleSeed /\ IdleTokens /\ IdleCompare /\ IdleChallenge /\ IdleValidator /\ IdleScores /\ IdleService
    /\ props \in {<<p>> : p \in WidgetProps}
    /\ usedIndices = {}
    /\ selectedWords = <<>>
    /\ history = <<>>
    /\ memo = UseMemoShuffledBank(<<>>, props[1], now)
    /\ shownBanks = {memo[1].value}
    /\ completed = <<>>

\* handleSubmit(): onComplete?.({ isCorrect, userTokens, userAnswer,
\* correctAnswer }) unless the selection is incomplete or disabled is set
HandleSubmit ==
    /\ props # <<>>
    /\ IF ~IsComplete(props[1], selectedWords, shuffledBank) \/ props[1].disabled
       THEN UNCHANGED widgetVars
       ELSE /\ completed' = <<SubmitResult(props[1], selectedWords)>>
            /\ UNCHANGED <<props, usedIndices, selectedWords, history, memo, shownBanks>>
    /\ UNCHANGED <<now, challengeVars, shuffleVars, seedVars, tokenVars, compareVars,
                   validatorVars, scoreVars, serviceVars>>

NextWidget ==
    \/ \E index \in 0..MaxWidgetBank : Len(history) < MaxWidgetHistory /\ BankWordTap(index)
    \/ \E index \in 0..MaxWidgetBank : Len(history) < MaxWidgetHistory /\ AnswerWordTap(index)
    \/ Undo
    \/ Reset
    \/ HandleSubmit

SpecWidget == InitWidget /\ [][NextWidget]_vars

----------------------------------------------------------------------------
(* contentValidator: the validators and the legacy converters.  A question *)
(* is a record; an array field is <<>> when missing and <<array>> when     *)
(* present; a string field is Undefined when missing.                      *)

\* { field, message, severity }; the message is kept as its fixed text
\* (kind) and the values interpolated into it (params)
Finding(field, severity, kind, params) ==
    [field |-> field, message |-> [kind |-> kind, params |-> params], severity |-> severity]

\* toks.map(t => t.toLowerCase())
LowerTokens(toks) == [i \in 1..Len(toks) |-> ToLowerCase(toks[i])]

\* the count a Map built by counting the keys holds for key (0 when absent)
Occurrences(keys, key) == Cardinality({i \in 1..Len(keys) : keys[i] = key})

\* mutant: the bank is counted without lower-casing its tokens
BankKeysCaseSensitive(wordBankTokens) == wordBankTokens

\* the keys counted into bankCounts
BankKeys(wordBankTokens) == LowerTokens(wordBankTokens)

\* requiredCounts.forEach(...) up to the key first inserted for
\* correctTokens[n]: a Map is visited in the order its keys were inserted
RECURSIVE IntegrityLoop(_, _, _)
IntegrityLoop(required, bank, n) ==
    IF n = 0 THEN <<>>
    ELSE LET token == required[n]
             count == Occurrences(required, token)
             available == Occurrences(bank, token)
             firstSeen == \A i \in 1..(n - 1) : required[i] # token
         IN  IF firstSeen /\ available < count
             THEN Append(IntegrityLoop(required, bank, n - 1),
                         Finding("word_bank_tokens", "error",
                                 "Token required but only in word bank",
                                 <<token, count, available>>))
             ELSE IntegrityLoop(required, bank, n - 1)

validateTokenIntegrity(correct, wordBankTokens) ==
    IntegrityLoop(LowerTokens(correct), BankKeys(wordBankTokens), Len(correct))

\* mutant: the two strings are compared as they are
AnswersDifferExactly(joinedText, correctAnswerString) ==
    joinedText # correctAnswerString

\* joined.toLowerCase() !== correctAnswerString.toLowerCase()
AnswersDiffer(joinedText, correctAnswerString) ==
    ToLowerCase(joinedText) # ToLowerCase(correctAnswerString)

validateJoinedAnswer(correct, correctAnswerString) ==
    IF AnswersDiffer(joinTokensWithSpacing(correct), correctAnswerString)
    THEN <<Finding("correct_answer_string", "error", "Joined tokens doesn't match expected",
                   <<joinTokensWithSpacing(correct), correctAnswerString>>)>>
    ELSE <<>>

\* /\s{2,}/.test(text)
HasDoubleSpace(text) ==
    \E i \in 1..(Len(text) - 1) :
        text[i] \in WhitespaceChars /\ text[i + 1] \in WhitespaceChars

\* /\s[.,!?;:]/.test(text)
HasSpaceBeforePunctuation(text) ==
    \E i \in 1..(Len(text) - 1) :
        text[i] \in WhitespaceChars /\ text[i + 1] \in TokenPunctuation

\* text[0] !== text[0].toUpperCase(), on the letters a-z
StartsLowerCase(text) == text[1] \in 97..122

\* /[.!?]$/.test(text)
EndsWithFinalMark(text) == text[Len(text)] \in {46, 33, 63}

validateGrammarBasics(text) ==
    (IF HasDoubleSpace(text)
     THEN <<Finding("correct_answer_string", "warning", "Double spaces detected", <<>>)>>
     ELSE <<>>)
    \o (IF HasSpaceBeforePunctuation(text)
        THEN <<Finding("correct_answer_string", "error",
                       "Space before punctuation detected", <<>>)>>
        ELSE <<>>)
    \o (IF Len(text) > 0 /\ StartsLowerCase(text)
        THEN <<Finding("correct_answer_string", "warning",
                       "Sentence should start with capital letter", <<>>)>>
        ELSE <<>>)
    \o (IF Len(text) > 0 /\ ~EndsWithFinalMark(text)
        THEN <<Finding("correct_answer_string", "warning",
                       "Sentence should end with punctuation", <<>>)>>
        ELSE <<>>)

\* !q.field?.length for an array field: missing or empty
NoLength(field) == field = <<>> \/ Len(field[1]) = 0

\* errors.some(e => e.severity === 'error')
SomeError(errors) == \E i \in 1..Len(errors) : errors[i].severity = "error"

\* if (!q.field) errors.push({ field, message: 'Missing field', severity: 'error' })
MissingIf(absent, field) ==
    IF absent THEN <<Finding(field, "error", "Missing", <<field>>)>> ELSE <<>>

\* mutant: the token counts are never compared
CountMismatchNever(correct, wordBankTokens) == FALSE

\* q.correct_tokens.length !== q.word_bank_tokens.length
CountMismatch(correct, wordBankTokens) == Len(correct) # Len(wordBankTokens)

\* mutant: the remaining checks run even after a missing field
ShortCircuitNever(errors) == FALSE

\* if (errors.some(e => e.severity === 'error')) return errors;
ShortCircuit(errors) == SomeError(errors)

\* the checks of validateArrangeWordsQuestion after the required fields
ArrangeWordsChecks(correct, wordBankTokens, correctAnswerString) ==
    validateTokenIntegrity(correct, wordBankTokens)
    \o validateJoinedAnswer(correct, correctAnswerString)
    \o validateGrammarBasics(correctAnswerString)
    \o (IF CountMismatch(correct, wordBankTokens)
        THEN <<Finding("word_bank_tokens", "error", "Token count mismatch",
                       <<Len(correct), Len(wordBankTokens)>>)>>
        ELSE <<>>)

validateArrangeWordsQuestion(q) ==
    LET errors == MissingIf(Falsy(q.id), "id")
                  \o MissingIf(NoLength(q.correct_tokens), "correct_tokens")
                  \o MissingIf(NoLength(q.word_bank_tokens), "word_bank_tokens")
                  \o MissingIf(Falsy(q.correct_answer_string), "correct_answer_string")
    IN  IF ShortCircuit(errors) THEN errors
        ELSE errors \o ArrangeWordsChecks(
                 IF q.correct_tokens = <<>> THEN <<>> ELSE q.correct_tokens[1],
                 IF q.word_bank_tokens = <<>> THEN <<>> ELSE q.word_bank_tokens[1],
                 IF q.correct_answer_string = Undefined THEN <<>> ELSE q.correct_answer_string)

\* mutant: overlapping occurrences of ___ are all counted
RECURSIVE CountBlanksOverlapping(_)
CountBlanksOverlapping(template) ==
    IF Len(template) < 3 THEN 0
    ELSE IF SubSeq(template, 1, 3) = <<95, 95, 95>>
         THEN 1 + CountBlanksOverlapping(Tail(template))
         ELSE CountBlanksOverlapping(Tail(template))

\* (template.match(/___/g) || []).length: the matches are found from left
\* to right and do not overlap
RECURSIVE CountBlanks(_)
CountBlanks(template) ==
    IF Len(template) < 3 THEN 0
    ELSE IF SubSeq(template, 1, 3) = <<95, 95, 95>>
         THEN 1 + CountBlanks(SubSeq(template, 4, Len(template)))
         ELSE CountBlanks(Tail(template))

\* the checks of validateFillBlanksQuestion after the required fields
FillBlanksChecks(template, correct, wordBankTokens, correctAnswerString) ==
    (IF CountBlanks(template) # Len(correct)
     THEN <<Finding("blanks", "error", "Blank count doesn't match answer token count",
                    <<CountBlanks(template), Len(correct)>>)>>
     ELSE <<>>)
    \o validateTokenIntegrity(correct, wordBankTokens)
    \o (IF ~Falsy(correctAnswerString)
        THEN validateGrammarBasics(correctAnswerString)
        ELSE <<>>)

validateFillBlanksQuestion(q) ==
    LET errors == MissingIf(Falsy(q.id), "id")
                  \o MissingIf(Falsy(q.sentence_template), "sentence_template")
                  \o MissingIf(NoLength(q.correct_tokens), "correct_tokens")
                  \o MissingIf(NoLength(q.word_bank_tokens), "word_bank_tokens")
    IN  IF ShortCircuit(errors) THEN errors
        ELSE errors \o FillBlanksChecks(
                 IF q.sentence_template = Undefined THEN <<>> ELSE q.sentence_template,
                 IF q.correct_tokens = <<>> THEN <<>> ELSE q.correct_tokens[1],
                 IF q.word_bank_tokens = <<>> THEN <<>> ELSE q.word_bank_tokens[1],
                 q.correct_answer_string)

validateQuestion(q) ==
    IF q.type = "arrange_words" THEN validateArrangeWordsQuestion(q)
    ELSE IF q.type = "fill_blanks" THEN validateFillBlanksQuestion(q)
    ELSE <<Finding("type", "error", "Unknown question type", <<>>)>>

\* mutant: a finding of any severity makes the question unusable
isQuestionValidStrict(q) == validateQuestion(q) = <<>>

isQuestionValid(q) == ~SomeError(validateQuestion(q))

\* the characters /[\s]/ matches in contentValidator.ts
ValidatorWhitespaceChars ==
    {9, 10, 11, 12, 13, 32, 160, 5760, 8232, 8233, 8239, 8287, 12288, 65279}
        \cup (8192..8202)

\* mutant: the validator's tokenizer does not split on the semicolon
ValidatorPunctuationWithoutSemicolon == {46, 44, 33, 63, 58}

\* the characters /[.,!?;:]/ matches in contentValidator.ts
ValidatorPunctuation == {46, 44, 33, 63, 59, 58}

\* one turn of the loop of parseIntoTokens of contentValidator.ts on the
\* loop state [tokens, current]
ValidatorParseStep(before, char) ==
    IF char \in ValidatorWhitespaceChars
    THEN IF Len(before.current) > 0
         THEN [tokens |-> Append(before.tokens, before.current), current |-> <<>>]
         ELSE before
    ELSE IF char \in ValidatorPunctuation
         THEN IF Len(before.current) > 0
              THEN [tokens |-> before.tokens \o <<before.current, <<char>>>>,
                    current |-> <<>>]
              ELSE [tokens |-> Append(before.tokens, <<char>>), current |-> before.current]
         ELSE [tokens |-> before.tokens, current |-> Append(before.current, char)]

RECURSIVE ValidatorParseLoop(_, _)
ValidatorParseLoop(text, n) ==
    IF n = 0 THEN [tokens |-> <<>>, current |-> <<>>]
    ELSE CHOOSE after \in {ValidatorParseStep(before, text[n]) :
                              before \in {ValidatorParseLoop(text, n - 1)}} : TRUE

\* parseIntoTokens of contentValidator.ts
ValidatorParseIntoTokens(text) ==
    LET final == ValidatorParseLoop(text, Len(text))
    IN  IF Len(final.current) > 0 THEN Append(final.tokens, final.current)
        ELSE final.tokens

convertLegacyScramble(old) ==
    [id |-> old.id,
     type |-> "arrange_words",
     sentence_template |-> Undefined,
     correct_tokens |-> <<ValidatorParseIntoTokens(old.correctSentence)>>,
     word_bank_tokens |-> old.scrambled,
     correct_answer_string |-> old.correctSentence]

\* str.split(','): the pieces between the commas, "" included
RECURSIVE SplitOnComma(_)
SplitOnComma(str) ==
    IF \A i \in 1..Len(str) : str[i] # 44 THEN <<str>>
    ELSE LET at == CHOOSE i \in 1..Len(str) :
                       str[i] = 44 /\ \A j \in 1..(i - 1) : str[j] # 44
         IN  <<SubSeq(str, 1, at - 1)>> \o SplitOnComma(SubSeq(str, at + 1, Len(str)))

\* legacy.correctAnswer.split(',').map(s => s.trim())
SplitAnswers(correctAnswer) ==
    LET pieces == SplitOnComma(correctAnswer)
    IN  [i \in 1..Len(pieces) |-> TrimEnd(TrimStart(pieces[i]))]

\* legacy.question.replace(/___/g, () => answers.shift() || '___') from the
\* first character of rest on: the text produced, and what is left in the
\* array `answers` refers to, which every shift() shortens in place
RECURSIVE ReplaceBlanks(_, _)
ReplaceBlanks(rest, remaining) ==
    IF Len(rest) < 3 THEN [text |-> rest, answers |-> remaining]
    ELSE IF SubSeq(rest, 1, 3) = <<95, 95, 95>>
         THEN LET shifted == IF Len(remaining) = 0 THEN Undefined ELSE Head(remaining)
                  after == ReplaceBlanks(SubSeq(rest, 4, Len(rest)),
                                         IF Len(remaining) = 0 THEN <<>> ELSE Tail(remaining))
              IN  [text |-> (IF Falsy(shifted) THEN <<95, 95, 95>> ELSE shifted) \o after.text,
                   answers |-> after.answers]
         ELSE LET after == ReplaceBlanks(Tail(rest), remaining)
              IN  [text |-> <<rest[1]>> \o after.text, answers |-> after.answers]

\* the object literal is evaluated field by field: correct_tokens is the
\* array `answers` itself, wordBank a copy made before any shift(), and the
\* replace() that builds correct_answer_string then empties `answers`; the
\* caller reads correct_tokens from the array as it is after the return
convertLegacyFillBlank(old) ==
    LET answersAtStart == SplitAnswers(old.correctAnswer)
        wordBank == answersAtStart
        replaced == ReplaceBlanks(old.question, answersAtStart)
    IN  [id |-> old.id,
         type |-> "fill_blanks",
         sentence_template |-> old.question,
         correct_tokens |-> <<replaced.answers>>,
         word_bank_tokens |-> <<wordBank>>,
         correct_answer_string |-> replaced.text]

MaxValidatedTokens == 3
MaxFillTokens == 2
MaxTemplateLen == 6
MaxAnswerLen == 3

\* "A", "a", "."
ValidatedTokens == {<<65>>, <<97>>, <<46>>}

\* "A", "a"
FillTokens == {<<65>>, <<97>>}

\* not passed, "", "q1"
ValidatedIds == {Undefined, <<>>, <<113, 49>>}

\* an array field: missing, or an array of at most n tokens of S
ArrayFields(S, n) == {<<>>} \cup {<<a>> : a \in TokenArrays(S, n)}

\* "A  a.", "A .", "a", "A."
GrammarSamples == {<<65, 32, 32, 97, 46>>, <<65, 32, 46>>, <<97>>, <<65, 46>>}

\* canonical answers tried with the correct tokens toks: missing, "", the
\* joined tokens, the joined tokens in lower case, the joined tokens with
\* the last one left out, and the grammar samples
AnswerStrings(toks) ==
    {Undefined, <<>>,
     joinTokensWithSpacing(toks),
     ToLowerCase(joinTokensWithSpacing(toks)),
     joinTokensWithSpacing(SubSeq(toks, 1, Len(toks) - 1))}
        \cup GrammarSamples

ArrangeWordsQuestions ==
    UNION {[id : ValidatedIds,
            type : {"arrange_words"},
            sentence_template : {Undefined},
            correct_tokens : {correct},
            word_bank_tokens : ArrayFields(ValidatedTokens, MaxValidatedTokens),
            correct_answer_string :
                AnswerStrings(IF correct = <<>> THEN <<>> ELSE correct[1])]
           : correct \in ArrayFields(ValidatedTokens, MaxValidatedTokens)}

\* templates of "_" and "a"
FillBlanksQuestions ==
    [id : {<<>>, <<113, 49>>},
     type : {"fill_blanks"},
     sentence_template : {Undefined} \cup Strings({95, 97}, MaxTemplateLen),
     correct_tokens : ArrayFields(FillTokens, MaxFillTokens),
     word_bank_tokens : ArrayFields(FillTokens, MaxFillTokens),
     correct_answer_string : {Undefined} \cup GrammarSamples]

\* a question whose type is neither of the two
OtherQuestions ==
    [id : ValidatedIds,
     type : {"matching"},
     sentence_template : {Undefined},
     correct_tokens : {<<>>},
     word_bank_tokens : {<<>>},
     correct_answer_string : {Undefined}]

\* stronger, a, lion, A, is, than, tiger, .
TigerScrambled ==
    <<<<115, 116, 114, 111, 110, 103, 101, 114>>, <<97>>, <<108, 105, 111, 110>>,
      <<65>>, <<105, 115>>, <<116, 104, 97, 110>>, <<116, 105, 103, 101, 114>>, <<46>>>>

LegacyScrambles ==
    [id : {<<113, 49>>},
     correctSentence : ScrambleSentences,
     scrambled : ScrambledArrays]
    \cup {[id |-> <<113, 49>>, correctSentence |-> TigerSentence,
           scrambled |-> <<TigerScrambled>>]}
    \cup [id : {<<113, 49>>},
          correctSentence : Strings(SentenceChars, MaxSentenceLen),
          scrambled : {<<>>}]

\* answers of "a", "," and " "
LegacyFillBlanks ==
    [id : {<<113, 49>>},
     question : Strings({95, 97}, MaxTemplateLen),
     correctAnswer : Strings({97, 44, 32}, MaxAnswerLen)]

InitValidator ==
    /\ now = ClockStart
    /\ IdleShuffle /\ IdleSeed /\ IdleTokens /\ IdleCompare /\ IdleChallenge /\ IdleWidget /\ IdleScores /\ IdleService
    /\ \/ /\ legacy = <<>>
          /\ \/ \E q \in ArrangeWordsQuestions : candidate = <<q>>
             \/ \E q \in FillBlanksQuestions : candidate = <<q>>
             \/ \E q \in OtherQuestions : candidate = <<q>>
       \/ /\ legacy \in {<<[kind |-> "scramble", q |-> old]>> : old \in LegacyScrambles}
                          \cup {<<[kind |-> "fillBlank", q |-> old]>> : old \in LegacyFillBlanks}
          /\ candidate = <<>>
    /\ report = <<>>

\* candidate = convertLegacyScramble(legacy)
ConvertScramble ==
    /\ legacy # <<>>
    /\ legacy[1].kind = "scramble"
    /\ candidate = <<>>
    /\ candidate' = <<convertLegacyScramble(legacy[1].q)>>
    /\ UNCHANGED <<now, legacy, report, shuffleVars, seedVars, tokenVars, compareVars,
                   challengeVars, widgetVars, scoreVars, serviceVars>>

\* candidate = convertLegacyFillBlank(legacy)
ConvertFillBlank ==
    /\ legacy # <<>>
    /\ legacy[1].kind = "fillBlank"
    /\ candidate = <<>>
    /\ candidate' = <<convertLegacyFillBlank(legacy[1].q)>>
    /\ UNCHANGED <<now, legacy, report, shuffleVars, seedVars, tokenVars, compareVars,
                   challengeVars, widgetVars, scoreVars, serviceVars>>

\* validateQuestion(candidate) and isQuestionValid(candidate)
Validate ==
    /\ candidate # <<>>
    /\ report = <<>>
    /\ report' = <<[findings |-> validateQuestion(candidate[1]),
                    valid |-> isQuestionValid(candidate[1])]>>
    /\ UNCHANGED <<now, legacy, candidate, shuffleVars, seedVars, tokenVars, compareVars,
                   challengeVars, widgetVars, scoreVars, serviceVars>>

NextValidator == ConvertScramble \/ ConvertFillBlank \/ Validate

SpecValidator == InitValidator /\ [][NextValidator]_vars

----------------------------------------------------------------------------
(* The legacy scramble question of the tiger sentence: converted and       *)
(* validated, and played in MegaChallenge by a learner who taps the bank   *)
(* tokens in the order of the sentence and submits.                        *)

MaxLessonSeeds == 3

TigerQuestion ==
    [id |-> <<113, 49>>, correctSentence |-> TigerSentence, scrambled |-> <<TigerScrambled>>]

\* A, tiger, is, stronger, than, a, lion, .
TigerTapOrder ==
    <<<<65>>, <<116, 105, 103, 101, 114>>, <<105, 115>>,
      <<115, 116, 114, 111, 110, 103, 101, 114>>, <<116, 104, 97, 110>>,
      <<97>>, <<108, 105, 111, 110>>, <<46>>>>

\* session seeds: not passed, "", "s1", and the clock readings at load
LessonSeeds ==
    {Undefined, <<>>, <<115, 49>>}
        \cup {DateNowString([ClockStart EXCEPT !.ms = k]) : k \in 0..MaxLessonSeeds}

InitLesson ==
    /\ now = ClockStart
    /\ IdleShuffle /\ IdleSeed /\ IdleTokens /\ IdleCompare /\ IdleWidget /\ IdleScores /\ IdleService
    /\ legacy = <<[kind |-> "scramble", q |-> TigerQuestion]>>
    /\ candidate = <<>>
    /\ report = <<>>
    /\ question = TigerQuestion
    /\ SESSION_SEED \in LessonSeeds
    /\ activeZone = "mc"
    /\ answers = <<>>
    /\ submitted = <<>>

\* the learner taps a bank word showing the next token of the order
LearnerTapsNext ==
    \E index \in 0..(Len(TigerTapOrder) - 1) :
        /\ props # <<>>
        /\ ~props[1].showResult
        /\ Len(selectedWords) < Len(TigerTapOrder)
        /\ index \in 0..(Len(shuffledBank) - 1)
        /\ index \notin usedIndices
        /\ shuffledBank[index + 1] = TigerTapOrder[Len(selectedWords) + 1]
        /\ BankWordTap(index)

NextLesson ==
    \/ Tick
    \/ ConvertScramble
    \/ Validate
    \/ SetActiveZone("scramble")
    \/ ParentRender
    \/ LearnerTapsNext
    \/ Submit

\* the conversion, the validation and the learner all get to act
SpecLesson == InitLesson /\ [][NextLesson]_vars /\ WF_vars(NextLesson)

----------------------------------------------------------------------------
(* Properties of the shuffler, under SpecShuffle *)

Range(a) == {a[i] : i \in 1..Len(a)}

Count(a, x) == Cardinality({i \in 1..Len(a) : a[i] = x})

IsPermutationOf(a, b) ==
    /\ Len(a) = Len(b)
    /\ \A x \in Range(a) \cup Range(b) : Count(a, x) = Count(b, x)

AllSame(a) == \A i, j \in 1..Len(a) : a[i] = a[j]

SetMin(S) == CHOOSE k \in S : \A m \in S : k <= m

\* C2: every array deterministicShuffle returns (for the seed and for each
\* retry seed) has the length and the multiset of elements of its argument.
ShuffleIsPermutation ==
    result # 0 => IsPermutationOf(heap[result], input)

ShuffleIsPermutationWitness ==
    /\ pc = "done"
    /\ Len(input) = 3
    /\ Cardinality(Range(input)) = 2
    /\ heap[result] # input

\* C7: shuffleWithRecheck returns the shuffle for seed + k with k the least
\* retry index in 0..maxAttempts-1 whose shuffle differs from the argument,
\* or the shuffle for k = maxAttempts-1 when none differs; a two-element
\* array of distinct tokens comes back in its own order only when all the
\* maxAttempts shuffles leave it unchanged.
RecheckReturnsFirstDiffering ==
    pc = "done" =>
        LET differing ==
                {k \in 0..(maxAttempts - 1) :
                    ~arraysEqual(ShuffledWith(input, NumAdd(seed, k)), input)}
        IN  /\ heap[result] =
                    IF differing = {}
                    THEN ShuffledWith(input, NumAdd(seed, maxAttempts - 1))
                    ELSE ShuffledWith(input, NumAdd(seed, SetMin(differing)))
            /\ (Len(input) = 2 /\ input[1] # input[2] /\ heap[result] = input)
                    => \A k \in 0..(maxAttempts - 1) :
                            ShuffledWith(input, NumAdd(seed, k)) = input

\* a retry was needed and found a different order
RecheckReturnsFirstDifferingWitness ==
    /\ pc = "done"
    /\ attempts > 1
    /\ attempts < maxAttempts
    /\ heap[result] # input
    /\ ShuffledWith(input, seed) = input

\* C8: the call ends, having shuffled at most maxAttempts times, and for an
\* empty, single-element or all-identical array it returns an array equal
\* to its argument.
RecheckTerminates ==
    /\ <>(pc = "done")
    /\ [](attempts <= maxAttempts)
    /\ [](pc = "done" /\ AllSame(input) => heap[result] = input)

\* all maxAttempts shuffles were spent on an array that cannot change
RecheckTerminatesWitness ==
    /\ pc = "done"
    /\ Len(input) >= 2
    /\ AllSame(input)
    /\ maxAttempts = DefaultMaxAttempts
    /\ attempts = maxAttempts

\* C9: the argument array holds the same elements in the same order during
\* and after deterministicShuffle and shuffleWithRecheck.
ArgumentNotMutated ==
    pc # "idle" => heap[array] = input

ArgumentNotMutatedWitness ==
    /\ pc = "done"
    /\ result # array
    /\ heap[result] # input
    /\ heap[array] = input

----------------------------------------------------------------------------
(* Determinism of seed derivation and shuffle, under SpecSeed *)

\* C1: for every question id, every session id that was passed and every
\* token array, two evaluations of generateSeed then deterministicShuffle
\* return the same seed and the same token sequence.
SeedAndShuffleRepeatable ==
    (sessionId # Undefined /\ firstRun # <<>> /\ secondRun # <<>>)
        => firstRun = secondRun

\* what does hold of the code: the same, for a session id that is passed
\* and is not the empty string
RepeatableForNonEmptySession ==
    (~Falsy(sessionId) /\ firstRun # <<>> /\ secondRun # <<>>)
        => firstRun = secondRun

----------------------------------------------------------------------------
(* Tokenizer and joiner round trip, under SpecTokens *)

StripWhitespace(str) == SelectSeq(str, LAMBDA ch : ch \notin WhitespaceChars)

\* in text n, each punctuation mark directly follows what precedes it and
\* is followed by a space, by another punctuation mark or by the end
PunctuationAttached(n) ==
    \A i \in 1..Len(n) :
        n[i] \in TokenPunctuation =>
            /\ (i > 1 => n[i - 1] # 32)
            /\ (i < Len(n) => (n[i + 1] = 32 \/ n[i + 1] \in TokenPunctuation))

\* C4 as claimed: for every sentence of letters, digits, spaces and
\* . , ! ? ; : the joined tokens equal the sentence up to whitespace
\* normalization (trimmed, every whitespace run one space).
RoundTripUpToWhitespace ==
    joined # <<>> =>
        normalizeForComparison(joined[1], TRUE) = normalizeForComparison(sentence, TRUE)

\* C4 as amended: the joined tokens keep the words and punctuation marks of
\* the sentence in order (they tokenize to the same tokens and equal the
\* sentence once all whitespace is removed); they equal the sentence up to
\* whitespace normalization exactly when in the normalized sentence every
\* punctuation mark is attached to what precedes it and is followed by a
\* space, another punctuation mark or the end.
RoundTripWhenPunctuationAttached ==
    joined # <<>> =>
        LET n == normalizeForComparison(sentence, TRUE)
        IN  /\ parseIntoTokens(joined[1]) = parsed[1]
            /\ StripWhitespace(joined[1]) = StripWhitespace(sentence)
            /\ (normalizeForComparison(joined[1], TRUE) = n) <=> PunctuationAttached(n)

\* "a, a" or the like: word, punctuation mark, word, reproduced exactly
RoundTripWitness ==
    /\ joined # <<>>
    /\ Len(parsed[1]) = 3
    /\ parsed[1][2] = <<44>>
    /\ Len(sentence) = 4
    /\ joined[1] = sentence

----------------------------------------------------------------------------
(* Token comparator, under SpecCompare *)

\* C5: isCorrect is true exactly when the arrays have equal length and no
\* position differs; differences lists, ascending, every index below the
\* longer length at which the tokens differ (case-insensitively unless
\* caseSensitive), a missing token counting as the empty string; so [A,B]
\* against [A,B,C] is incorrect with index 2 recorded.
CompareListsEveryDifference ==
    comparison # <<>> =>
        LET longer == IF Len(userTokens) > Len(correctTokens)
                      THEN Len(userTokens) ELSE Len(correctTokens)
            At(a, i) == IF i < Len(a) THEN a[i + 1] ELSE <<>>
            Norm(t) == IF caseSensitive THEN t ELSE ToLowerCase(t)
            differing == {i \in 0..(longer - 1) :
                            Norm(At(userTokens, i)) # Norm(At(correctTokens, i))}
            d == comparison[1].differences
        IN  /\ {d[k] : k \in 1..Len(d)} = differing
            /\ \A k \in 1..(Len(d) - 1) : d[k] < d[k + 1]
            /\ comparison[1].isCorrect
                <=> (Len(userTokens) = Len(correctTokens) /\ differing = {})
            /\ (userTokens = <<<<65>>, <<66>>>> /\ correctTokens = <<<<65>>, <<66>>, <<67>>>>)
                => (~comparison[1].isCorrect /\ d = <<2>>)

CompareListsEveryDifferenceWitness ==
    /\ comparison # <<>>
    /\ userTokens = <<<<65>>, <<66>>>>
    /\ correctTokens = <<<<65>>, <<66>>, <<67>>>>
    /\ comparison[1].differences = <<2>>
    /\ ~comparison[1].isCorrect

\* C6: comparing a token array with itself gives isCorrect true and no
\* differences, with caseSensitive false or true.
CompareWithItself ==
    (comparison # <<>> /\ userTokens = correctTokens)
        => (comparison[1].isCorrect /\ comparison[1].differences = <<>>)

CompareWithItselfWitness ==
    /\ comparison # <<>>
    /\ userTokens = correctTokens
    /\ userTokens = <<<<65>>, <<97>>>>
    /\ ~caseSensitive
    /\ comparison[1].isCorrect

\* C3: the word bank MegaChallenge hands to WordBankFill, and the shuffled
\* bank shown, hold each token of the tokenized correct sentence at least as
\* many times as the sentence does, whatever the scrambled array is.
BankHoldsCorrectTokens ==
    props # <<>> =>
        \A tok \in Range(props[1].correctTokens) :
            /\ Count(props[1].wordBank.val, tok) >= Count(props[1].correctTokens, tok)
            /\ Count(shuffledBank, tok) >= Count(props[1].correctTokens, tok)

\* C10: for the one question and session of a run, every render of
\* WordBankFill shows the same shuffled token sequence, across taps,
\* removals, undos, resets, parent re-renders and remounts.
ShuffledBankStable == Cardinality(shownBanks) <= 1

ShuffledBankStableWitness ==
    /\ props # <<>>
    /\ props[1].wordBank.ref = 2
    /\ now.ms > ClockStart.ms
    /\ Len(shuffledBank) = 3
    /\ shuffledBank # props[1].wordBank.val
    /\ Len(history) = 1
    /\ Len(selectedWords) = 1

----------------------------------------------------------------------------
(* Tokenizer, under SpecTokens *)

\* C18 as claimed: "A tiger is stronger than a lion." tokenizes to 9
\* tokens, the last being the period on its own.
TigerSentenceHasNineTokens ==
    (parsed # <<>> /\ sentence = TigerSentence) =>
        /\ Len(parsed[1]) = 9
        /\ parsed[1][Len(parsed[1])] = <<46>>

\* C18 as amended: "A tiger is stronger than a lion." tokenizes to the 8
\* tokens A, tiger, is, stronger, than, a, lion and the period on its own.
TigerSentenceHasEightTokens ==
    (parsed # <<>> /\ sentence = TigerSentence) =>
        /\ Len(parsed[1]) = 8
        /\ parsed[1][8] = <<46>>
        /\ parsed[1][1] = <<65>>
        /\ parsed[1][6] = <<97>>
        /\ parsed[1][7] = <<108, 105, 111, 110>>

TigerSentenceTokenizedWitness ==
    /\ sentence = TigerSentence
    /\ parsed # <<>>
    /\ Len(parsed[1]) > 0

RECURSIVE Flatten(_)
Flatten(toks) == IF toks = <<>> THEN <<>> ELSE Head(toks) \o Flatten(Tail(toks))

\* C20: every token parseIntoTokens returns is non-empty and is either one
\* of the characters . , ! ? ; : alone or a word with no whitespace and none
\* of those characters; the tokens are the non-whitespace characters of the
\* input in input order; an empty or whitespace-only input gives no token.
TokensAreWordsOrMarks ==
    parsed # <<>> =>
        /\ \A i \in 1..Len(parsed[1]) :
              LET token == parsed[1][i]
              IN  /\ Len(token) > 0
                  /\ \/ (Len(token) = 1 /\ token[1] \in {46, 44, 33, 63, 59, 58})
                     \/ \A k \in 1..Len(token) :
                            /\ token[k] # 32
                            /\ token[k] \notin {46, 44, 33, 63, 59, 58}
        /\ Flatten(parsed[1]) = SelectSeq(sentence, LAMBDA ch : ch # 32)
        /\ ((\A k \in 1..Len(sentence) : sentence[k] = 32) => parsed[1] = <<>>)

\* " a:1" or the like: a word, a mark and a word after leading whitespace
TokensAreWordsOrMarksWitness ==
    /\ parsed # <<>>
    /\ Len(sentence) = 4
    /\ sentence[1] = 32
    /\ Len(parsed[1]) = 3
    /\ parsed[1][2] = <<58>>

----------------------------------------------------------------------------
(* Validators and converters, under SpecValidator *)

\* the report is that of an arrange-words question with every required
\* field present
ArrangeWordsChecked ==
    /\ report # <<>>
    /\ candidate[1].type = "arrange_words"
    /\ candidate[1].id \notin {Undefined, <<>>}
    /\ candidate[1].correct_tokens \notin {<<>>, <<<<>>>>}
    /\ candidate[1].word_bank_tokens \notin {<<>>, <<<<>>>>}
    /\ candidate[1].correct_answer_string \notin {Undefined, <<>>}

\* the report is that of a fill-blanks question with every required field
\* present
FillBlanksChecked ==
    /\ report # <<>>
    /\ candidate[1].type = "fill_blanks"
    /\ candidate[1].id \notin {Undefined, <<>>}
    /\ candidate[1].sentence_template \notin {Undefined, <<>>}
    /\ candidate[1].correct_tokens \notin {<<>>, <<<<>>>>}
    /\ candidate[1].word_bank_tokens \notin {<<>>, <<<<>>>>}

\* the positions of the findings of the report with the given field, kind
\* and severity
FindingsOf(field, kind, severity) ==
    {i \in 1..Len(report[1].findings) :
        /\ report[1].findings[i].field = field
        /\ report[1].findings[i].message.kind = kind
        /\ report[1].findings[i].severity = severity}

LowerCount(toks, t) == Count(LowerTokens(toks), t)

JoinedMismatchFindings ==
    FindingsOf("correct_answer_string", "Joined tokens doesn't match expected", "error")

ValidBankIsRearrangement ==
    (report # <<>> /\ candidate[1].type = "arrange_words") =>
        LET correct == IF candidate[1].correct_tokens = <<>> THEN <<>>
                       ELSE candidate[1].correct_tokens[1]
            bank == IF candidate[1].word_bank_tokens = <<>> THEN <<>>
                    ELSE candidate[1].word_bank_tokens[1]
            blocked == \E i \in 1..Len(report[1].findings) :
                           report[1].findings[i].severity = "error"
        IN  /\ ~blocked => IsPermutationOf(LowerTokens(bank), LowerTokens(correct))
            /\ Len(bank) # Len(correct) => blocked

\* correct tokens A, a, . with the bank ., a, a: accepted
ValidBankIsRearrangementWitness ==
    /\ ArrangeWordsChecked
    /\ candidate[1].correct_tokens[1] = <<<<65>>, <<97>>, <<46>>>>
    /\ candidate[1].word_bank_tokens[1] = <<<<46>>, <<97>>, <<97>>>>
    /\ report[1].valid

\* the report holds a finding of severity error
ReportHasError ==
    \E i \in 1..Len(report[1].findings) : report[1].findings[i].severity = "error"

\* C14: isQuestionValid is true exactly when validateQuestion returns no
\* finding of severity error: findings of severity warning leave the
\* question usable, a space before punctuation in the checked sentence and
\* an unknown question type make it unusable.
UsableIffNoError ==
    report # <<>> =>
        /\ report[1].valid <=> ~ReportHasError
        /\ candidate[1].type \notin {"arrange_words", "fill_blanks"} => ~report[1].valid
        /\ ((ArrangeWordsChecked \/ FillBlanksChecked)
               /\ candidate[1].correct_answer_string # Undefined
               /\ \E k \in 1..(Len(candidate[1].correct_answer_string) - 1) :
                      /\ candidate[1].correct_answer_string[k] = 32
                      /\ candidate[1].correct_answer_string[k + 1]
                             \in {46, 44, 33, 63, 59, 58})
             => ~report[1].valid

\* a fill-blanks question with the sentence "A  a." or "a": warnings only
UsableIffNoErrorWitness ==
    /\ FillBlanksChecked
    /\ report[1].valid
    /\ Len(report[1].findings) >= 2
    /\ \A i \in 1..Len(report[1].findings) : report[1].findings[i].severity = "warning"

\* the required fields of an arrange-words question that are missing or empty
MissingArrangeFields ==
    {f \in {"id", "correct_tokens", "word_bank_tokens", "correct_answer_string"} :
        \/ f = "id" /\ candidate[1].id \in {Undefined, <<>>}
        \/ f = "correct_tokens" /\ candidate[1].correct_tokens \in {<<>>, <<<<>>>>}
        \/ f = "word_bank_tokens" /\ candidate[1].word_bank_tokens \in {<<>>, <<<<>>>>}
        \/ f = "correct_answer_string"
              /\ candidate[1].correct_answer_string \in {Undefined, <<>>}}

\* C15: when a required field of an arrange-words question is missing or
\* empty, the findings are one 'Missing ...' error for each missing field
\* and nothing else.
MissingFieldsShortCircuit ==
    (report # <<>> /\ candidate[1].type = "arrange_words" /\ MissingArrangeFields # {}) =>
        /\ Len(report[1].findings) = Cardinality(MissingArrangeFields)
        /\ \A f \in MissingArrangeFields :
               \E i \in 1..Len(report[1].findings) :
                   report[1].findings[i]
                       = [field |-> f,
                          message |-> [kind |-> "Missing", params |-> <<f>>],
                          severity |-> "error"]

\* the bank is missing while the correct tokens are there and do not join
\* to the canonical string: one finding only
MissingFieldsShortCircuitWitness ==
    /\ report # <<>>
    /\ candidate[1].type = "arrange_words"
    /\ MissingArrangeFields = {"word_bank_tokens"}
    /\ Len(candidate[1].correct_tokens[1]) = 2
    /\ candidate[1].correct_answer_string = <<65, 32, 46>>
    /\ Len(report[1].findings) = 1

\* the number of ___ placeholders: every run of k underscores holds k \div 3
RECURSIVE Placeholders(_, _)
Placeholders(template, run) ==
    IF template = <<>> THEN run \div 3
    ELSE IF Head(template) = 95 THEN Placeholders(Tail(template), run + 1)
    ELSE (run \div 3) + Placeholders(Tail(template), 0)

\* C16: with the required fields present, validateFillBlanksQuestion
\* reports an error on blanks exactly when the number of ___ placeholders
\* of sentence_template is not the number of correct tokens.
BlankCountReported ==
    FillBlanksChecked =>
        LET blanks == Placeholders(candidate[1].sentence_template, 0)
            answersCount == Len(candidate[1].correct_tokens[1])
            onBlanks == FindingsOf("blanks", "Blank count doesn't match answer token count",
                                   "error")
        IN  /\ (onBlanks # {}) <=> (blanks # answersCount)
            /\ \A i \in onBlanks :
                   report[1].findings[i].message.params = <<blanks, answersCount>>
            /\ \A i \in 1..Len(report[1].findings) :
                   report[1].findings[i].field = "blanks" => i \in onBlanks

\* the template "______" with two correct tokens: no error on blanks
BlankCountReportedWitness ==
    /\ FillBlanksChecked
    /\ candidate[1].sentence_template = <<95, 95, 95, 95, 95, 95>>
    /\ Len(candidate[1].correct_tokens[1]) = 2
    /\ \A i \in 1..Len(report[1].findings) : report[1].findings[i].field # "blanks"

\* the template with each ___ replaced by the next of the answers, a ___
\* staying where the answers have run out or the answer is empty
RECURSIVE FilledTemplate(_, _)
FilledTemplate(template, fill) ==
    IF Len(template) < 3 THEN template
    ELSE IF SubSeq(template, 1, 3) = <<95, 95, 95>>
         THEN (IF fill = <<>> \/ Head(fill) = <<>> THEN <<95, 95, 95>> ELSE Head(fill))
              \o FilledTemplate(SubSeq(template, 4, Len(template)),
                                IF fill = <<>> THEN <<>> ELSE Tail(fill))
         ELSE <<Head(template)>> \o FilledTemplate(Tail(template), fill)

\* C17: the question convertLegacyFillBlank returns has correct_tokens and
\* word_bank_tokens both equal to the comma-split, trimmed answers in
\* order, and correct_answer_string equal to the template with each ___
\* replaced by the successive answer; with k >= 1 blanks and k answers
\* validateFillBlanksQuestion reports no blank-count and no missing-field
\* error on it.
LegacyFillBlankConverted ==
    (legacy # <<>> /\ legacy[1].kind = "fillBlank" /\ candidate # <<>>) =>
        LET expected == SplitAnswers(legacy[1].q.correctAnswer)
            blanks == Placeholders(legacy[1].q.question, 0)
        IN  /\ candidate[1].correct_tokens = <<expected>>
            /\ candidate[1].word_bank_tokens = <<expected>>
            /\ candidate[1].correct_answer_string
                   = FilledTemplate(legacy[1].q.question, expected)
            /\ (report # <<>> /\ blanks >= 1 /\ blanks = Len(expected)) =>
                   \A i \in 1..Len(report[1].findings) :
                       /\ report[1].findings[i].field # "blanks"
                       /\ report[1].findings[i].message.kind # "Missing"

\* C21: the tokens convertLegacyScramble gets from parseIntoTokens of
\* contentValidator.ts are, for every sentence, the tokens parseIntoTokens
\* of the shuffle utilities returns for it.
TokenizersAgree ==
    (legacy # <<>> /\ legacy[1].kind = "scramble" /\ candidate # <<>>) =>
        candidate[1].correct_tokens = <<parseIntoTokens(legacy[1].q.correctSentence)>>

\* "a;1 " or the like: a word, a semicolon and a word, then whitespace
TokenizersAgreeWitness ==
    /\ legacy # <<>>
    /\ legacy[1].kind = "scramble"
    /\ candidate # <<>>
    /\ Len(legacy[1].q.correctSentence) = 4
    /\ legacy[1].q.correctSentence[2] = 59
    /\ legacy[1].q.correctSentence[4] = 32
    /\ Len(candidate[1].correct_tokens[1]) = 3

----------------------------------------------------------------------------
(* joinTokensWithSpacing, under SpecJoin *)

\* the number of characters the claim puts before toks[i] in the joined
\* text: the tokens before it and one space for each pair that gets one
RECURSIVE JoinOffset(_, _)
JoinOffset(toks, i) ==
    IF i = 1 THEN 0
    ELSE JoinOffset(toks, i - 1) + Len(toks[i - 1])
            + (IF toks[i - 1] \in {<<40>>, <<34>>, <<39>>}
                  \/ toks[i] \in {<<46>>, <<44>>, <<63>>, <<33>>, <<58>>, <<59>>,
                                   <<39>>, <<34>>, <<41>>}
                  \/ (Len(toks[i]) > 0 /\ toks[i][1] = 39)
               THEN 0 ELSE 1)

\* C22: in the joined text every token stands in order, the first at the
\* very start; between two consecutive tokens there is nothing when the
\* later one is one of . , ? ! : ; ' " ) or starts with an apostrophe or
\* the earlier one is one of ( " ', and exactly one space otherwise; after
\* the last token there is nothing, and no token gives the empty string.
JoinSpacesTokens ==
    joined # <<>> =>
        LET toks == parsed[1]
            text == joined[1]
        IN  IF Len(toks) = 0 THEN text = <<>>
            ELSE /\ Len(text) = JoinOffset(toks, Len(toks)) + Len(toks[Len(toks)])
                 /\ \A i \in 1..Len(toks) :
                        LET at == JoinOffset(toks, i)
                        IN  /\ SubSeq(text, at + 1, at + Len(toks[i])) = toks[i]
                            /\ i > 1 =>
                                  LET gap == at - (JoinOffset(toks, i - 1) + Len(toks[i - 1]))
                                  IN  gap = 1 => text[at] = 32

\* ( a 's joined to "(a's": nothing after "(" and nothing before "'s"
JoinSpacesTokensWitness ==
    /\ joined # <<>>
    /\ parsed[1] = <<<<40>>, <<97>>, <<39, 115>>>>
    /\ joined[1] = <<40, 97, 39, 115>>

----------------------------------------------------------------------------
(* The range of generateSeed, under SpecSeed *)

\* the rolling hash of the seed string of the evaluation, a 32-bit word
HashOfEvaluation == HashLoop(SeedString(questionId, sessionId, now),
                             Len(SeedString(questionId, sessionId, now)))

\* C23: the seed generateSeed returns is a non-negative integer below 2^32
\* (both halves of the Number are within 0 .. 2^16 - 1), whatever the sign
\* of the rolling hash; for the hash -2^31 it is 2^31.
SeedIsNonNegative ==
    firstRun # <<>> =>
        /\ firstRun[1].seed[1] \in 0..(Half - 1)
        /\ firstRun[1].seed[2] \in 0..(Half - 1)

\* the hash of "6976FDK-s1" is the minimum signed 32-bit value
SeedIsNonNegativeWitness ==
    /\ firstRun # <<>>
    /\ now = ClockStart
    /\ HashOfEvaluation = <<Half \div 2, 0>>
    /\ firstRun[1].seed = <<Half \div 2, 0>>

----------------------------------------------------------------------------
(* The generator and the drawn indices, under SpecShuffle *)

\* the draws of the loop of deterministicShuffle from index i down to 1 with
\* the generator in state seedState: the numerator of each value returned
\* by random() and the index j computed from it
RECURSIVE Draws(_, _)
Draws(seedState, i) ==
    IF i <= 0 THEN <<>>
    ELSE LET r == createSeededRandom(seedState)
         IN  <<[i |-> i, value |-> r.value, j |-> FloorScaled(r.value, i + 1)]>>
                 \o Draws(r.seed, i - 1)

\* the seeds of the shuffles made so far: seed, seed + 1, ...
SeedsTried == {NumAdd(seed, k) : k \in 0..(attempts - 1)}

\* C24: for every seed deterministicShuffle was called with (0, 1, -1,
\* 2^31 - 1, 2^31 and the retry seeds seed + attempt above them), every
\* value of the generator is u / 2^32 with 0 <= u < 2^32, every drawn index
\* j satisfies 0 <= j <= i, and the shuffled array has the indices of the
\* argument and no undefined element.
DrawnIndexWithinArray ==
    result # 0 =>
        /\ \A s \in SeedsTried :
              \A n \in DOMAIN Draws(s, Len(input) - 1) :
                  LET draw == Draws(s, Len(input) - 1)[n]
                  IN  /\ draw.value[1] \in 0..(Half - 1)
                      /\ draw.value[2] \in 0..(Half - 1)
                      /\ draw.j >= 0
                      /\ draw.j <= draw.i
        /\ DOMAIN heap[result] = DOMAIN input
        /\ \A k \in DOMAIN heap[result] : heap[result][k] # Undefined

\* a retry with the seed 2^31 + 1 on three tokens, the first draw taking
\* the last index
DrawnIndexWithinArrayWitness ==
    /\ result # 0
    /\ seed = <<Half \div 2, 0>>
    /\ attempts = 2
    /\ Len(input) = 3
    /\ \E s \in SeedsTried : Draws(s, 2)[1].j = 2

----------------------------------------------------------------------------
(* The state hooks of WordBankFill, under SpecWidget *)

\* the bank indices of the selected words, in selection order
SelectedIndices == [i \in 1..Len(selectedWords) |-> selectedWords[i].originalIndex]

\* C25: after any sequence of bank taps, answer-area removals, undos and
\* resets, usedIndices is exactly the set of the originalIndex values of
\* selectedWords, no bank index occurs twice in selectedWords, each selected
\* word is the bank token at its index, and the selection holds no more
\* words than the bank.
SelectionMatchesUsedIndices ==
    /\ usedIndices = Range(SelectedIndices)
    /\ \A i, k \in 1..Len(selectedWords) :
          i # k => SelectedIndices[i] # SelectedIndices[k]
    /\ \A i \in 1..Len(selectedWords) :
          /\ SelectedIndices[i] \in 0..(Len(shuffledBank) - 1)
          /\ selectedWords[i].word = shuffledBank[SelectedIndices[i] + 1]
    /\ Len(selectedWords) <= Len(shuffledBank)

\* both bank words were selected and the one selected first, the bank
\* word at index 0, was then removed
SelectionMatchesUsedIndicesWitness ==
    /\ Len(history) = 3
    /\ Len(history[3]) = 2
    /\ history[3][1].originalIndex = 0
    /\ SelectedIndices = <<1>>
    /\ usedIndices = {1}

\* the number of blanks of the props: blankCount when it is passed and not
\* 0, the number of correct tokens otherwise
BlanksOfProps ==
    IF props[1].blankCount # <<>> /\ props[1].blankCount[1] # 0
    THEN props[1].blankCount[1]
    ELSE Len(props[1].correctTokens)

\* C26: a step that calls onComplete is taken only when disabled is not set
\* and the selection is complete (arrange_words: every bank index is used;
\* fill_blanks: as many words are selected as there are blanks), and the
\* result it passes has the selected words as userTokens and as isCorrect
\* the verdict of compareTokenArrays(userTokens, correctTokens, false).
OnCompleteOnlyWhenComplete ==
    [][completed' # completed =>
        /\ ~props[1].disabled
        /\ IF props[1].mode = "arrange_words"
           THEN usedIndices = 0..(Len(shuffledBank) - 1)
           ELSE Len(selectedWords) = BlanksOfProps
        /\ completed'[1].userTokens = [i \in 1..Len(selectedWords) |-> selectedWords[i].word]
        /\ completed'[1].isCorrect =
              compareTokenArrays([i \in 1..Len(selectedWords) |-> selectedWords[i].word],
                                 props[1].correctTokens, FALSE).isCorrect]_vars

\* onComplete was called in fill_blanks mode with one blank and a bank of
\* two words, with a wrong answer
OnCompleteOnlyWhenCompleteWitness ==
    /\ completed # <<>>
    /\ props[1].mode = "fill_blanks"
    /\ props[1].blankCount = <<1>>
    /\ Len(shuffledBank) = 2
    /\ Len(props[1].correctTokens) = 1
    /\ ~completed[1].isCorrect
    /\ Len(completed[1].userTokens) = 1

\* C27: in fill_blanks mode the number of selected words never exceeds the
\* number of blanks (blankCount when it is given, the number of correct
\* tokens otherwise), after any sequence of bank taps, removals, undos and
\* resets.
SelectionWithinBlanks ==
    props[1].mode = "fill_blanks" => Len(selectedWords) <= BlanksOfProps

\* a bank tap or an answer-area removal
TapOrRemoval ==
    \E index \in 0..MaxWidgetBank : BankWordTap(index) \/ AnswerWordTap(index)

\* the bank indices of the selection sel
IndicesOf(sel) == {sel[i].originalIndex : i \in 1..Len(sel)}

\* C28: an accepted bank tap or removal appends the selection it found to
\* history, so that the undo right after it, which pops the last entry of
\* history and restores selectedWords and usedIndices from it, gives back
\* selectedWords, usedIndices and history as they were before the tap or
\* removal; reset empties all three; and while disabled or showResult is
\* set no step changes any of the three.
UndoRestoresSelection ==
    /\ [][(TapOrRemoval /\ history' # history) =>
            /\ Len(history') = Len(history) + 1
            /\ SubSeq(history', 1, Len(history)) = history
            /\ history'[Len(history')] = selectedWords
            /\ IndicesOf(history'[Len(history')]) = usedIndices
            /\ ~props[1].disabled /\ ~props[1].showResult]_vars
    /\ [][(Undo /\ history' # history) =>
            /\ selectedWords' = history[Len(history)]
            /\ usedIndices' = IndicesOf(history[Len(history)])
            /\ history' = SubSeq(history, 1, Len(history) - 1)]_vars
    /\ [][(Reset /\ ~props[1].disabled /\ ~props[1].showResult) =>
            /\ selectedWords' = <<>>
            /\ usedIndices' = {}
            /\ history' = <<>>]_vars
    /\ [][(props[1].disabled \/ props[1].showResult) =>
            UNCHANGED <<selectedWords, usedIndices, history>>]_vars

\* both bank words selected with two entries in history: the state a tap,
\* a tap, a removal and an undo lead to
UndoRestoresSelectionWitness ==
    /\ ~props[1].disabled /\ ~props[1].showResult
    /\ Len(history) = 2
    /\ Len(history[2]) = 1
    /\ Len(selectedWords) = 2
    /\ usedIndices = {0, 1}

----------------------------------------------------------------------------
(* The legacy tiger question, under SpecLesson *)

\* the learner's answer to the question has been recorded
LessonAnswered == <<113, 49>> \in DOMAIN answers

\* C19: the legacy tiger question converted by convertLegacyScramble
\* validates with no error; in WordBankFill in arrange_words mode, whatever
\* the session seed, the learner tapping A, tiger, is, stronger, than, a,
\* lion, . reaches a complete selection, and the submit records isCorrect.
LegacyTigerAnsweredCorrectly ==
    /\ <>(report # <<>>)
    /\ [](report # <<>> =>
            /\ report[1].valid
            /\ \A i \in 1..Len(report[1].findings) :
                   report[1].findings[i].severity # "error")
    /\ [](props # <<>> => props[1].mode = "arrange_words")
    /\ []((props # <<>> /\ Len(selectedWords) = Len(TigerTapOrder)) =>
            IsComplete(props[1], selectedWords, shuffledBank))
    /\ <>LessonAnswered
    /\ [](LessonAnswered =>
            /\ answers[<<113, 49>>].isCorrect
            /\ answers[<<113, 49>>].userTokens = TigerTapOrder)

\* answered with a bank shuffled from a seed the clock supplied
LegacyTigerAnsweredCorrectlyWitness ==
    /\ LessonAnswered
    /\ answers[<<113, 49>>].isCorrect
    /\ report # <<>>
    /\ report[1].findings = <<>>
    /\ SESSION_SEED = Undefined
    /\ shuffledBank # TigerScrambled
    /\ shuffledBank # TigerTapOrder

----------------------------------------------------------------------------
(* MegaChallenge with a whole payload: answers, submitted and the scores *)

\* a value stored in answers: a number (the index of an option), a boolean,
\* a string, or an object given by its own properties
NumberValue(n) == <<"number", n>>
BooleanValue(b) == <<"boolean", b>>
StringValue(str) == <<"string", str>>
ObjectValue(properties) == <<"object", properties>>
Kind(value) == value[1]
Val(value) == value[2]

\* whether value || fallback takes value; value is <<>> for undefined
TruthyValue(value) ==
    /\ value # <<>>
    /\ CASE Kind(value[1]) = "number" -> Val(value[1]) # 0
         [] Kind(value[1]) = "boolean" -> Val(value[1])
         [] Kind(value[1]) = "string" -> Val(value[1]) # <<>>
         [] OTHER -> TRUE

\* String(value) of a value that is not undefined
StringOf(value) ==
    CASE Kind(value) = "number" -> DecimalDigits(Val(value))
      [] Kind(value) = "boolean" ->
            IF Val(value) THEN <<116, 114, 117, 101>> ELSE <<102, 97, 108, 115, 101>>
      [] Kind(value) = "string" -> Val(value)
      [] OTHER -> <<91, 111, 98, 106, 101, 99, 116, 32, 79, 98, 106, 101, 99, 116, 93>>

\* {...value}: the own enumerable properties of a value, none for a number
\* or a boolean, the characters for a string
Spread(value) ==
    CASE Kind(value) = "object" -> Val(value)
      [] Kind(value) = "string" ->
            [i \in 0..(Len(Val(value)) - 1) |-> StringValue(<<Val(value)[i + 1]>>)]
      [] OTHER -> <<>>

\* value[key] and value?.[key]: undefined for undefined, for a missing
\* property, and for every property of a number or a boolean read here
Property(value, key) ==
    IF value = <<>> THEN <<>>
    ELSE IF Kind(value[1]) \in {"number", "boolean"} THEN <<>>
    ELSE IF Kind(value[1]) = "string" /\ key \notin 0..(Len(Val(value[1])) - 1) THEN <<>>
    ELSE Lookup(Spread(value[1]), key)

\* String(value || "")
StringOrEmpty(value) == IF TruthyValue(value) THEN StringOf(value[1]) ELSE <<>>

\* the characters of /[.,/#!$%^&*;:{}=\-_`~()?]/
StrictPunctuation ==
    {46, 44, 47, 35, 33, 36, 37, 94, 38, 42, 59, 58, 123, 125, 61, 45, 95, 96, 126,
     40, 41, 63}

\* str.replace(/[.,/#!$%^&*;:{}=\-_`~()?]/g, "")
RECURSIVE RemoveStrictPunctuation(_)
RemoveStrictPunctuation(str) ==
    IF Len(str) = 0 THEN <<>>
    ELSE IF str[1] \in StrictPunctuation THEN RemoveStrictPunctuation(Tail(str))
    ELSE <<str[1]>> \o RemoveStrictPunctuation(Tail(str))

\* normalizeStrict(s) for s already converted by String(s || "")
normalizeStrict(str) ==
    TrimEnd(TrimStart(CollapseWhitespace(RemoveStrictPunctuation(ToLowerCase(str)))))

\* handleAnswer(qId, val): the new value of answers
handleAnswer(ans, subm, qId, val) ==
    IF Lookup(subm, qId) = <<TRUE>> THEN ans ELSE Put(ans, qId, val)

\* checkFinal(qId, isCorrect): the new value of submitted
checkFinal(subm, qId) == Put(subm, qId, TRUE)

\* the zones of each variant
ZonesOf(v) ==
    IF v = "MegaChallenge.tsx"
    THEN {"mc", "fill", "vocab", "scramble", "trueFalse"}
    ELSE {"mc", "fill", "scramble", "vocab", "tf", "listen"}

\* the questions a zone shows: a field of megaData, or listeningData
QuestionsOf(data, zone) ==
    CASE zone = "mc" -> data.multipleChoice
      [] zone = "fill" -> data.fillBlank
      [] zone = "scramble" -> data.scramble
      [] zone = "vocab" -> data.vocabTranslation
      [] zone \in {"trueFalse", "tf"} -> data.trueFalse
      [] OTHER -> data.listening

\* targetParts.every((part, idx) => normalizeStrict(userAnsObj[idx] || "")
\*     === normalizeStrict(part)) with userAnsObj = answers[q.id] || {}
IsAllCorrect(q, answer) ==
    LET targetParts == SplitAnswers(q.correctAnswer)
        userAnsObj == IF TruthyValue(answer) THEN answer ELSE <<ObjectValue(<<>>)>>
    IN  \A idx \in 0..(Len(targetParts) - 1) :
            normalizeStrict(StringOrEmpty(Property(userAnsObj, idx)))
                = normalizeStrict(targetParts[idx + 1])

\* result?.isCorrect, as the condition of an if
ResultIsCorrect(answer) == TruthyValue(Property(answer, "isCorrect"))

\* whether calculateZoneScore counts question q of the zone, given
\* answers[q.id]
CountsAsCorrect(v, zone, q, answer) ==
    CASE zone \in {"mc", "vocab", "listen"} -> answer = <<NumberValue(q.correctAnswer)>>
      [] zone \in {"trueFalse", "tf"} -> answer = <<BooleanValue(q.isTrue)>>
      [] zone = "fill" ->
            IF v = "MegaChallenge.tsx" THEN IsAllCorrect(q, answer)
            ELSE ResultIsCorrect(answer)
      [] OTHER ->
            IF v = "MegaChallenge.tsx"
            THEN normalizeStrict(StringOrEmpty(answer)) = normalizeStrict(q.correctSentence)
            ELSE ResultIsCorrect(answer)

\* calculateZoneScore(zone)
calculateZoneScore(v, data, ans, subm, zone) ==
    LET qs == QuestionsOf(data, zone)
    IN  Cardinality({k \in 1..Len(qs) :
            /\ Lookup(subm, qs[k].id) = <<TRUE>>
            /\ CountsAsCorrect(v, zone, qs[k], Lookup(ans, qs[k].id))})

\* the object the effect on [submitted, megaData, listeningData] hands to
\* onScoresUpdate
ZoneScores(v, data, ans, subm) ==
    [zone \in ZonesOf(v) |-> calculateZoneScore(v, data, ans, subm, zone)]

\* the number of options of every multiple-choice, vocabulary and
\* listening question of the payloads
MaxOptions == 2

\* "", "a", "A.", "b": what the learner may leave in a text input
TypedTexts == {<<>>, <<97>>, <<65, 46>>, <<98>>}

\* what WordBankFill hands to onComplete, as far as MegaChallenge reads it
ScrambleResults == {ObjectValue([isCorrect |-> BooleanValue(b)]) : b \in BOOLEAN}

ChoiceQuestion(id, correct) == [id |-> id, options |-> MaxOptions, correctAnswer |-> correct]

\* two payloads: one whose question ids are all different, one whose ids
\* "q1" and "q2" are shared by questions of several zones
MegaPayloads ==
    {[multipleChoice |-> <<ChoiceQuestion(<<109, 49>>, 1), ChoiceQuestion(<<109, 50>>, 0)>>,
      fillBlank |-> <<[id |-> <<102, 49>>, question |-> <<95, 95, 95>>,
                       correctAnswer |-> <<97>>, alternativeAnswers |-> <<<<98>>>>]>>,
      scramble |-> <<[id |-> <<115, 49>>, correctSentence |-> <<97>>]>>,
      vocabTranslation |-> <<ChoiceQuestion(<<118, 49>>, 0)>>,
      trueFalse |-> <<[id |-> <<116, 49>>, isTrue |-> TRUE]>>,
      listening |-> <<ChoiceQuestion(<<108, 49>>, 1)>>],
     [multipleChoice |-> <<ChoiceQuestion(<<113, 49>>, 1)>>,
      fillBlank |-> <<[id |-> <<113, 49>>, question |-> <<95, 95, 95>>,
                       correctAnswer |-> <<97>>, alternativeAnswers |-> <<>>]>>,
      scramble |-> <<[id |-> <<113, 50>>, correctSentence |-> <<97>>]>>,
      vocabTranslation |-> <<ChoiceQuestion(<<113, 49>>, 1)>>,
      trueFalse |-> <<[id |-> <<113, 50>>, isTrue |-> FALSE]>>,
      listening |-> <<ChoiceQuestion(<<113, 50>>, 0)>>]}

InitScores ==
    /\ now = ClockStart
    /\ IdleShuffle /\ IdleSeed /\ IdleTokens /\ IdleCompare /\ IdleWidget /\ IdleValidator
    /\ IdleService
    /\ question = <<>>
    /\ SESSION_SEED = <<>>
    /\ variant \in {"MegaChallenge.tsx", "part_002"}
    /\ megaData \in MegaPayloads
    /\ activeZone = "mc"
    /\ answers = <<>>
    /\ submitted = <<>>
    \* the effect also runs after the first render
    /\ scores = ZoneScores(variant, megaData, <<>>, <<>>)

\* mutant: no control is ever disabled
DisabledNever(subm, qId) == FALSE

\* disabled={submitted[q.id]}
Disabled(subm, qId) == Lookup(subm, qId) = <<TRUE>>

\* setActiveZone(z.id)
SelectZone(zone) ==
    /\ zone \in ZonesOf(variant)
    /\ activeZone' = zone
    /\ UNCHANGED <<now, question, SESSION_SEED, answers, submitted, variant, megaData,
                   scores, shuffleVars, seedVars, tokenVars, compareVars, widgetVars,
                   validatorVars, serviceVars>>

\* an option button of question k of the mc, vocab or listen zone:
\* onClick={() => { handleAnswer(q.id, i); checkFinal(q.id, ...); }}, then
\* the effect that reports the scores
ChooseOption(zone, k, i) ==
    /\ zone \in {"mc", "vocab", "listen"} \cap ZonesOf(variant)
    /\ activeZone = zone
    /\ k \in 1..Len(QuestionsOf(megaData, zone))
    /\ LET q == QuestionsOf(megaData, zone)[k]
       IN  /\ i \in 0..(q.options - 1)
           /\ ~Disabled(submitted, q.id)
           /\ answers' = handleAnswer(answers, submitted, q.id, NumberValue(i))
           /\ submitted' = checkFinal(submitted, q.id)
    /\ scores' = ZoneScores(variant, megaData, answers', submitted')
    /\ UNCHANGED <<now, question, SESSION_SEED, activeZone, variant, megaData,
                   shuffleVars, seedVars, tokenVars, compareVars, widgetVars,
                   validatorVars, serviceVars>>

\* the True or the False button of question k:
\* onClick={() => { handleAnswer(q.id, b); checkFinal(q.id, ...); }}
AnswerTrueFalse(k, b) ==
    /\ activeZone \in {"trueFalse", "tf"}
    /\ k \in 1..Len(megaData.trueFalse)
    /\ LET q == megaData.trueFalse[k]
       IN  /\ ~Disabled(submitted, q.id)
           /\ answers' = handleAnswer(answers, submitted, q.id, BooleanValue(b))
           /\ submitted' = checkFinal(submitted, q.id)
    /\ scores' = ZoneScores(variant, megaData, answers', submitted')
    /\ UNCHANGED <<now, question, SESSION_SEED, activeZone, variant, megaData,
                   shuffleVars, seedVars, tokenVars, compareVars, widgetVars,
                   validatorVars, serviceVars>>

\* MegaChallenge.tsx, input i of fill question k: onChange={(e) =>
\* setAnswers(prev => ({ ...prev, [q.id]: { ...(prev[q.id] || {}),
\* [i]: e.target.value } }))}
TypeBlank(k, i, text) ==
    /\ variant = "MegaChallenge.tsx"
    /\ activeZone = "fill"
    /\ k \in 1..Len(megaData.fillBlank)
    /\ LET q == megaData.fillBlank[k]
           prev == Lookup(answers, q.id)
           before == IF TruthyValue(prev) THEN Spread(prev[1]) ELSE <<>>
       IN  /\ i \in 0..(CountBlanks(q.question) - 1)
           /\ ~Disabled(submitted, q.id)
           /\ answers' = Put(answers, q.id, ObjectValue(Put(before, i, StringValue(text))))
    /\ UNCHANGED <<now, question, SESSION_SEED, activeZone, submitted, variant, megaData,
                   scores, shuffleVars, seedVars, tokenVars, compareVars, widgetVars,
                   validatorVars, serviceVars>>

\* MegaChallenge.tsx, input of scramble question k:
\* onChange={(e) => handleAnswer(q.id, e.target.value)}
TypeSentence(k, text) ==
    /\ variant = "MegaChallenge.tsx"
    /\ activeZone = "scramble"
    /\ k \in 1..Len(megaData.scramble)
    /\ LET q == megaData.scramble[k]
       IN  /\ ~Disabled(submitted, q.id)
           /\ answers' = handleAnswer(answers, submitted, q.id, StringValue(text))
    /\ UNCHANGED <<now, question, SESSION_SEED, activeZone, submitted, variant, megaData,
                   scores, shuffleVars, seedVars, tokenVars, compareVars, widgetVars,
                   validatorVars, serviceVars>>

\* MegaChallenge.tsx, the button of fill or scramble question k, rendered
\* while !submitted[q.id]: onClick={() => checkFinal(q.id, ...)}
CheckTyped(zone, k) ==
    /\ variant = "MegaChallenge.tsx"
    /\ zone \in {"fill", "scramble"}
    /\ activeZone = zone
    /\ k \in 1..Len(QuestionsOf(megaData, zone))
    /\ LET q == QuestionsOf(megaData, zone)[k]
       IN  /\ Lookup(submitted, q.id) # <<TRUE>>
           /\ submitted' = checkFinal(submitted, q.id)
    /\ scores' = ZoneScores(variant, megaData, answers, submitted')
    /\ UNCHANGED <<now, question, SESSION_SEED, activeZone, answers, variant, megaData,
                   shuffleVars, seedVars, tokenVars, compareVars, widgetVars,
                   validatorVars, serviceVars>>

\* part_002, input of fill question k: onChange={(e) => { if (!isSubmitted)
\* handleAnswer(q.id, { userAnswer: e.target.value, isCorrect: false }); }}
TypeAnswer(k, text) ==
    /\ variant = "part_002"
    /\ activeZone = "fill"
    /\ k \in 1..Len(megaData.fillBlank)
    /\ LET q == megaData.fillBlank[k]
       IN  /\ ~Disabled(submitted, q.id)
           /\ answers' = IF Lookup(submitted, q.id) = <<TRUE>> THEN answers
                          ELSE handleAnswer(answers, submitted, q.id,
                                   ObjectValue([userAnswer |-> StringValue(text),
                                                isCorrect |-> BooleanValue(FALSE)]))
    /\ UNCHANGED <<now, question, SESSION_SEED, activeZone, submitted, variant, megaData,
                   scores, shuffleVars, seedVars, tokenVars, compareVars, widgetVars,
                   validatorVars, serviceVars>>

\* (answers[q.id]?.userAnswer || '').trim()
TrimmedUserAnswer(answer) ==
    LET userAnswer == Property(answer, "userAnswer")
    IN  IF TruthyValue(userAnswer) THEN TrimEnd(TrimStart(Val(userAnswer[1]))) ELSE <<>>

\* allCorrectAnswers.some(ans => normalizeStrict(ans) === normalizedUser)
\* with allCorrectAnswers = [q.correctAnswer, ...(q.alternativeAnswers || [])]
MatchesSomeAnswer(q, userAnswer) ==
    LET allCorrectAnswers == <<q.correctAnswer>> \o q.alternativeAnswers
    IN  \E n \in 1..Len(allCorrectAnswers) :
            normalizeStrict(allCorrectAnswers[n]) = normalizeStrict(userAnswer)

\* part_002, the button of fill question k, rendered while !isSubmitted and
\* disabled={!answers[q.id]?.userAnswer?.trim()}: handleAnswer(q.id,
\* { userAnswer, isCorrect: correct }); checkFinal(q.id, correct)
CheckAnswer(k) ==
    /\ variant = "part_002"
    /\ activeZone = "fill"
    /\ k \in 1..Len(megaData.fillBlank)
    /\ LET q == megaData.fillBlank[k]
           userAnswer == TrimmedUserAnswer(Lookup(answers, q.id))
       IN  /\ Lookup(submitted, q.id) # <<TRUE>>
           /\ userAnswer # <<>>
           /\ answers' = handleAnswer(answers, submitted, q.id,
                             ObjectValue([userAnswer |-> StringValue(userAnswer),
                                          isCorrect |->
                                              BooleanValue(MatchesSomeAnswer(q, userAnswer))]))
           /\ submitted' = checkFinal(submitted, q.id)
    /\ scores' = ZoneScores(variant, megaData, answers', submitted')
    /\ UNCHANGED <<now, question, SESSION_SEED, activeZone, variant, megaData,
                   shuffleVars, seedVars, tokenVars, compareVars, widgetVars,
                   validatorVars, serviceVars>>

\* part_002, the WordBankFill of scramble question k, which has
\* disabled={isSubmitted}: onComplete={(res) => { handleAnswer(q.id, res);
\* checkFinal(q.id, res.isCorrect); }}
CompleteScramble(k, res) ==
    /\ variant = "part_002"
    /\ activeZone = "scramble"
    /\ k \in 1..Len(megaData.scramble)
    /\ LET q == megaData.scramble[k]
       IN  /\ ~Disabled(submitted, q.id)
           /\ answers' = handleAnswer(answers, submitted, q.id, res)
           /\ submitted' = checkFinal(submitted, q.id)
    /\ scores' = ZoneScores(variant, megaData, answers', submitted')
    /\ UNCHANGED <<now, question, SESSION_SEED, activeZone, variant, megaData,
                   shuffleVars, seedVars, tokenVars, compareVars, widgetVars,
                   validatorVars, serviceVars>>

NextScores ==
    \/ \E zone \in ChallengeZones \cup {"trueFalse"} : SelectZone(zone)
    \/ \E zone \in {"mc", "vocab", "listen"} :
           \E k \in DOMAIN QuestionsOf(megaData, zone) : \E i \in 0..(MaxOptions - 1) :
               ChooseOption(zone, k, i)
    \/ \E k \in DOMAIN megaData.trueFalse : \E b \in BOOLEAN : AnswerTrueFalse(k, b)
    \/ \E k \in DOMAIN megaData.fillBlank :
           \E i \in 0..(CountBlanks(megaData.fillBlank[k].question) - 1) :
               \E text \in TypedTexts : TypeBlank(k, i, text)
    \/ \E k \in DOMAIN megaData.scramble : \E text \in TypedTexts : TypeSentence(k, text)
    \/ \E zone \in {"fill", "scramble"} :
           \E k \in DOMAIN QuestionsOf(megaData, zone) : CheckTyped(zone, k)
    \/ \E k \in DOMAIN megaData.fillBlank : \E text \in TypedTexts : TypeAnswer(k, text)
    \/ \E k \in DOMAIN megaData.fillBlank : CheckAnswer(k)
    \/ \E k \in DOMAIN megaData.scramble : \E res \in ScrambleResults :
           CompleteScramble(k, res)

SpecScores == InitScores /\ [][NextScores]_vars

\* C29: in both variants, a question once submitted stays submitted and its
\* stored answer never changes; every zone score handed to onScoresUpdate
\* never decreases from one report to the next and never exceeds the number
\* of questions of its zone.
SubmittedAnswersAreFinal ==
    /\ [][\A qId \in DOMAIN submitted :
              submitted[qId] =>
                  /\ Lookup(submitted', qId) = <<TRUE>>
                  /\ Lookup(answers', qId) = Lookup(answers, qId)]_vars
    /\ [][\A zone \in ZonesOf(variant) : scores'[zone] >= scores[zone]]_vars
    /\ [](\A zone \in ZonesOf(variant) :
              scores[zone] <= Len(QuestionsOf(megaData, zone)))

\* MegaChallenge.tsx with the fill question answered correctly and checked,
\* one quiz question answered correctly and the other one wrongly
SubmittedAnswersAreFinalWitness ==
    /\ variant = "MegaChallenge.tsx"
    /\ Len(megaData.multipleChoice) = 2
    /\ scores["mc"] = 1
    /\ scores["fill"] = 1
    /\ \A k \in 1..2 : Lookup(submitted, megaData.multipleChoice[k].id) = <<TRUE>>
    /\ Lookup(answers, megaData.fillBlank[1].id) = <<ObjectValue(0 :> StringValue(<<65, 46>>))>>

----------------------------------------------------------------------------
(* callWithFallback *)

\* the ids of AVAILABLE_MODELS, in the order of the list
AVAILABLE_MODELS == <<"gemini-3-pro-preview", "gemini-3-flash-preview", "gemini-2.5-flash">>

\* the start indices tried: every index of the list, its length, and one more
StartIndices == 0..(Len(AVAILABLE_MODELS) + 1)

\* an Error object with the given message
ErrorValue(message) == ObjectValue([message |-> message])

\* what fn may resolve with: the lesson plans safeJsonParse returns
FnResults == {ObjectValue([title |-> "plan 1"]), ObjectValue([title |-> "plan 2"])}

\* what fn may reject with: an Error, or any other value a promise can be
\* rejected with, here the empty string and undefined (<<>>)
FnReasons == {<<ErrorValue("quota")>>, <<ErrorValue("overloaded")>>, <<StringValue(<<>>)>>, <<>>}

\* the TypeError of reading a property of undefined
TypeErrorValue == ErrorValue("Cannot read properties of undefined")

\* new Error('Tất cả các model đều thất bại')
AllModelsFailed == ErrorValue("Tat ca cac model deu that bai")

\* mutant: the whole list, whatever the start index
SliceWhole(arr, start) == arr

\* arr.slice(start) for a start index that is not negative
Slice(arr, start) == SubSeq(arr, start + 1, Len(arr))

\* lastError || new Error('Tất cả các model đều thất bại')
Thrown(last) == IF TruthyValue(last) THEN last[1] ELSE AllModelsFailed

\* whether the loop is waiting in `await fn(model.id)`
Awaiting == invoked # <<>> /\ invoked[Len(invoked)].outcome = "pending"

InitService ==
    /\ now = ClockStart
    /\ IdleShuffle /\ IdleSeed /\ IdleTokens /\ IdleCompare /\ IdleChallenge /\ IdleWidget
    /\ IdleValidator /\ IdleScores
    /\ startModelIndex \in StartIndices
    /\ models = Slice(AVAILABLE_MODELS, startModelIndex)
    /\ position = 0
    /\ lastError = <<>>
    /\ invoked = <<>>
    /\ promise = <<>>

\* the next iteration of for (const model of models): fn(model.id) is called
CallFn ==
    /\ promise = <<>>
    /\ ~Awaiting
    /\ position < Len(models)
    /\ position' = position + 1
    /\ invoked' = Append(invoked, [model |-> models[position + 1], outcome |-> "pending",
                                   settled |-> <<>>])
    /\ UNCHANGED <<now, startModelIndex, models, lastError, promise, shuffleVars, seedVars,
                   tokenVars, compareVars, challengeVars, widgetVars, validatorVars,
                   scoreVars>>

\* the promise fn returned is fulfilled: return await fn(model.id)
FnFulfilled(value) ==
    /\ promise = <<>>
    /\ Awaiting
    /\ invoked' = [invoked EXCEPT ![Len(invoked)] =
                       [@ EXCEPT !.outcome = "fulfilled", !.settled = <<value>>]]
    /\ promise' = <<[state |-> "fulfilled", value |-> value]>>
    /\ UNCHANGED <<now, startModelIndex, models, position, lastError, shuffleVars, seedVars,
                   tokenVars, compareVars, challengeVars, widgetVars, validatorVars,
                   scoreVars>>

\* the promise fn returned is rejected: catch (error) { lastError = error;
\* console.warn(..., error.message); }, where reading error.message throws
\* out of the catch block, and so out of callWithFallback, when error is
\* undefined
FnRejected(reason) ==
    /\ promise = <<>>
    /\ Awaiting
    /\ invoked' = [invoked EXCEPT ![Len(invoked)] =
                       [@ EXCEPT !.outcome = "rejected", !.settled = reason]]
    /\ lastError' = reason
    /\ promise' = IF reason = <<>>
                  THEN <<[state |-> "rejected", value |-> TypeErrorValue]>>
                  ELSE promise
    /\ UNCHANGED <<now, startModelIndex, models, position, shuffleVars, seedVars,
                   tokenVars, compareVars, challengeVars, widgetVars, validatorVars,
                   scoreVars>>

\* after the loop: throw lastError || new Error(...)
ThrowLastError ==
    /\ promise = <<>>
    /\ ~Awaiting
    /\ position = Len(models)
    /\ promise' = <<[state |-> "rejected", value |-> Thrown(lastError)]>>
    /\ UNCHANGED <<now, startModelIndex, models, position, lastError, invoked, shuffleVars,
                   seedVars, tokenVars, compareVars, challengeVars, widgetVars,
                   validatorVars, scoreVars>>

NextService ==
    \/ CallFn
    \/ \E value \in FnResults : FnFulfilled(value)
    \/ \E reason \in FnReasons : FnRejected(reason)
    \/ ThrowLastError

SpecService == InitService /\ [][NextService]_vars

\* fn was called on the models from startModelIndex on, in list order, each
\* once, every call but the last one rejected, and nothing happens once the
\* returned promise is settled
CallsInListOrder ==
    /\ [](\A n \in 1..Len(invoked) :
            /\ startModelIndex + n <= Len(AVAILABLE_MODELS)
            /\ invoked[n].model = AVAILABLE_MODELS[startModelIndex + n]
            /\ n < Len(invoked) => invoked[n].outcome = "rejected")
    /\ [](promise # <<>> /\ promise[1].state = "fulfilled" =>
            /\ invoked # <<>>
            /\ invoked[Len(invoked)].outcome = "fulfilled"
            /\ promise[1].value = invoked[Len(invoked)].settled[1])
    /\ [][promise # <<>> => UNCHANGED <<invoked, promise>>]_vars

\* every model from startModelIndex on was called and failed
AllFailed ==
    /\ \A m \in (startModelIndex + 1)..Len(AVAILABLE_MODELS) :
           \E n \in 1..Len(invoked) : invoked[n].model = AVAILABLE_MODELS[m]
    /\ \A n \in 1..Len(invoked) : invoked[n].outcome = "rejected"

\* the last call of fn was rejected with undefined
LastFailedWithUndefined ==
    /\ invoked # <<>>
    /\ invoked[Len(invoked)].outcome = "rejected"
    /\ invoked[Len(invoked)].settled = <<>>

====
